---- MODULE Spec2Model ----
(***************************************************************************)
(* A model of linenoise (src/src/lib.rs): the process-wide state G, the    *)
(* history ring, the raw-mode guard, the line buffer, the editor's key     *)
(* dispatch and the multiplexed session API (edit_start / edit_feed /      *)
(* edit_stop and the drop of a LinenoiseState).                            *)
(*                                                                         *)
(* Conventions.  A Rust String or Vec<char> is a sequence of code points   *)
(* (naturals).  Option<T> is a sequence of length at most one: <<>> is     *)
(* None and <<x>> is Some(x).  An io::Result is a record                   *)
(* [tag, kind, val]: tag "Ok" with val an Option<String>, or tag "Err"     *)
(* with the io::ErrorKind in kind.  Every result of a system call (isatty, *)
(* tcgetattr, tcsetattr, read, write, ioctl) is an input of the action     *)
(* that makes the call.                                                    *)
(***************************************************************************)
EXTENDS Integers, Sequences, FiniteSets, TLC

(***************************************************************************)
(* Bounds of the model.  The two capacities of the source (4096 characters *)
(* per line, 100 history entries) are scaled down; every comparison made   *)
(* against them is kept as the source makes it.                            *)
(***************************************************************************)
LINENOISE_MAX_LINE == 4

LINENOISE_DEFAULT_HISTORY_MAX_LEN == 2

\* how many sessions (successful or failed edit_start calls) one behaviour holds
MaxSessions == 2

\* largest argument given to linenoise_history_set_max_len
MaxLenArg == 2

\* longest run of consecutive Tab keys that is followed
MaxTabs == 4

\* longest line given to a LineBuffer operation applied on its own
MaxWordLen == 5

\* widest terminal and longest prompt given to a redraw applied on its own
MaxCols == 4

\* longest of the two buffers whose redraws are compared
MaxMaskedLen == 2

\* usize arithmetic wraps modulo UsizeModulus (2^64 in the source, narrowed
\* to the integers TLC has)
UsizeModulus == 2^30

wrapping_sub(a, b) == (a - b) % UsizeModulus

saturating_sub(a, b) == IF a > b THEN a - b ELSE 0

None == <<>>

Some(x) == <<x>>

Min(a, b) == IF a < b THEN a ELSE b

Max(a, b) == IF a > b THEN a ELSE b

(***************************************************************************)
(* Vec / VecDeque primitives.  Indices are 0-based as in the source.       *)
(***************************************************************************)
\* Iterator::take(n)
Take(s, n) == SubSeq(s, 1, Min(n, Len(s)))

\* Vec::insert(i, c)
VecInsert(s, i, c) == SubSeq(s, 1, i) \o <<c>> \o SubSeq(s, i + 1, Len(s))

\* Vec::remove(i)
VecRemove(s, i) == SubSeq(s, 1, i) \o SubSeq(s, i + 2, Len(s))

\* slice::swap(i, j)
VecSwap(s, i, j) == [s EXCEPT ![i + 1] = s[j + 1], ![j + 1] = s[i + 1]]

\* Vec::drain(a..b)
VecDrain(s, a, b) == SubSeq(s, 1, a) \o SubSeq(s, b + 1, Len(s))

\* VecDeque::pop_front
PopFront(s) == Tail(s)

(***************************************************************************)
(* Key codes (enum Key) and the other bytes the dispatch tests.            *)
(***************************************************************************)
CtrlA == 1
CtrlB == 2
CtrlC == 3
CtrlD == 4
CtrlE == 5
CtrlF == 6
CtrlH == 8
Tab == 9
CtrlK == 11
CtrlL == 12
Enter == 13
CtrlN == 14
CtrlP == 16
CtrlT == 20
CtrlU == 21
CtrlW == 23
Esc == 27
Backspace == 127
SPACE == 32

(***************************************************************************)
(* History                                                                 *)
(***************************************************************************)
History_new == [max_len |-> LINENOISE_DEFAULT_HISTORY_MAX_LEN, entries |-> <<>>]

\* the trim test off by one
TrimForAdd_off_by_one(h) ==
    IF Len(h.entries) > h.max_len THEN PopFront(h.entries) ELSE h.entries

\* the ring once the oldest entry has made room ("Trim to max length")
TrimForAdd(h) ==
    IF Len(h.entries) >= h.max_len THEN PopFront(h.entries) ELSE h.entries

\* the duplicate test made against the oldest entry
IsDuplicate_of_oldest(h, line) ==
    h.entries # <<>> /\ h.entries[1] = line

\* whether add refuses the line as a duplicate of the newest entry
IsDuplicate(h, line) ==
    h.entries # <<>> /\ h.entries[Len(h.entries)] = line

\* History::add: the new ring and the returned bool
History_add(h, line) ==
    IF h.max_len = 0 \/ line = <<>>
    THEN [h |-> h, ret |-> FALSE]
    ELSE IF IsDuplicate(h, line)
    THEN [h |-> h, ret |-> FALSE]
    ELSE [h |-> [h EXCEPT !.entries = Append(TrimForAdd(h), line)], ret |-> TRUE]

\* History::get: entries.get(len.wrapping_sub(index))
History_get(h, index) ==
    LET i == wrapping_sub(Len(h.entries), index)
    IN  IF i < Len(h.entries) THEN Some(h.entries[i + 1]) ELSE None

\* the loop of linenoise_history_set_max_len: pop_front while len > n
RECURSIVE PopWhileLonger(_, _)
PopWhileLonger(entries, n) ==
    IF Len(entries) > n THEN PopWhileLonger(PopFront(entries), n) ELSE entries

\* the truncation keeping the oldest entries
History_set_max_len_keeps_oldest(h, len) ==
    IF len < 1
    THEN [h |-> h, ret |-> FALSE]
    ELSE [h |-> [max_len |-> len, entries |-> Take(h.entries, len)], ret |-> TRUE]

\* linenoise_history_set_max_len: the new ring and the returned bool
History_set_max_len(h, len) ==
    IF len < 1
    THEN [h |-> h, ret |-> FALSE]
    ELSE [h |-> [max_len |-> len, entries |-> PopWhileLonger(h.entries, len)],
          ret |-> TRUE]

(***************************************************************************)
(* Terminal attributes (struct termios) and raw mode.  A flag word is the  *)
(* set of the flags that are on; c_cc is kept for VMIN and VTIME.          *)
(***************************************************************************)
\* a cooked terminal as a shell leaves it
CookedTermios ==
    [c_iflag |-> {"BRKINT", "ICRNL", "IXON"},
     c_oflag |-> {"OPOST"},
     c_cflag |-> {"CS8"},
     c_lflag |-> {"ECHO", "ICANON", "IEXTEN", "ISIG"},
     vmin    |-> 1,
     vtime   |-> 0]

\* a 7-bit line with parity checking and no echo, canonical
SevenBitTermios ==
    [c_iflag |-> {"ICRNL", "INPCK", "ISTRIP"},
     c_oflag |-> {"OPOST"},
     c_cflag |-> {},
     c_lflag |-> {"ICANON", "ISIG"},
     vmin    |-> 4,
     vtime   |-> 2]

\* the attributes the terminal may have before any session
InitialTermios == {CookedTermios, SevenBitTermios}

\* enable_raw_mode, "Modify the original mode"
MakeRaw(orig) ==
    [c_iflag |-> orig.c_iflag \ {"BRKINT", "ICRNL", "INPCK", "ISTRIP", "IXON"},
     c_oflag |-> orig.c_oflag \ {"OPOST"},
     c_cflag |-> orig.c_cflag \cup {"CS8"},
     c_lflag |-> orig.c_lflag \ {"ECHO", "ICANON", "IEXTEN", "ISIG"},
     vmin    |-> 1,
     vtime   |-> 0]

\* the global state after a successful enable_raw_mode
SetRawFlags(g, orig) == [g EXCEPT !.orig_termios = Some(orig), !.raw_mode = TRUE]

\* Terminal::enable_raw_mode.  env: is_tty, tcgetattr_ok, tcsetattr_ok.
\* Gives the Result (guard: Some(RawModeGuard), or None with the error's kind:
\* "Os" stands for last_os_error), the terminal's attributes and the global
\* state afterwards.
enable_raw_mode(term, tty, g, env) ==
    IF ~env.is_tty
    THEN [guard |-> None, err |-> "Other", tty |-> tty, g |-> g]
    ELSE IF ~env.tcgetattr_ok
    THEN [guard |-> None, err |-> "Os", tty |-> tty, g |-> g]
    ELSE IF ~env.tcsetattr_ok
    THEN [guard |-> None, err |-> "Os", tty |-> tty, g |-> g]
    ELSE [guard |-> Some([ifd |-> term.ifd, orig_termios |-> tty]),
          err   |-> "",
          tty   |-> MakeRaw(tty),
          g     |-> SetRawFlags(g, tty)]

\* the drop leaving the stored snapshot behind
ClearRawFlags_keeps_snapshot(g) == [g EXCEPT !.raw_mode = FALSE]

\* the global state after the guard's drop
ClearRawFlags(g) == [g EXCEPT !.raw_mode = FALSE, !.orig_termios = None]

\* the attributes tcsetattr(ifd, TCSAFLUSH, &orig_termios) leaves; drop does
\* not look at the call's result, and the call is taken to succeed
RestoredTermios(guard) == guard.orig_termios

\* impl Drop for RawModeGuard
RawModeGuard_drop(guard, g) ==
    [tty |-> RestoredTermios(guard), g |-> ClearRawFlags(g)]

(***************************************************************************)
(* LineBuffer: [chars, pos]                                                *)
(***************************************************************************)
LineBuffer_new == [chars |-> <<>>, pos |-> 0]

\* the capacity test off by one
AtCapacity_off_by_one(b) == Len(b.chars) > LINENOISE_MAX_LINE - 1

\* whether insert refuses the character
AtCapacity(b) == Len(b.chars) >= LINENOISE_MAX_LINE - 1

\* LineBuffer::insert: the buffer and the returned bool
LineBuffer_insert(b, c) ==
    IF AtCapacity(b)
    THEN [b |-> b, ret |-> FALSE]
    ELSE [b |-> [chars |-> VecInsert(b.chars, b.pos, c), pos |-> b.pos + 1],
          ret |-> TRUE]

\* LineBuffer::delete
LineBuffer_delete(b) ==
    IF b.pos < Len(b.chars)
    THEN [b |-> [b EXCEPT !.chars = VecRemove(b.chars, b.pos)], ret |-> TRUE]
    ELSE [b |-> b, ret |-> FALSE]

\* LineBuffer::backspace
LineBuffer_backspace(b) ==
    IF b.pos > 0
    THEN [b |-> [chars |-> VecRemove(b.chars, b.pos - 1), pos |-> b.pos - 1],
          ret |-> TRUE]
    ELSE [b |-> b, ret |-> FALSE]

\* LineBuffer::move_left
LineBuffer_move_left(b) ==
    IF b.pos > 0
    THEN [b |-> [b EXCEPT !.pos = b.pos - 1], ret |-> TRUE]
    ELSE [b |-> b, ret |-> FALSE]

\* LineBuffer::move_right
LineBuffer_move_right(b) ==
    IF b.pos < Len(b.chars)
    THEN [b |-> [b EXCEPT !.pos = b.pos + 1], ret |-> TRUE]
    ELSE [b |-> b, ret |-> FALSE]

\* LineBuffer::move_home
LineBuffer_move_home(b) == [b EXCEPT !.pos = 0]

\* LineBuffer::move_end
LineBuffer_move_end(b) == [b EXCEPT !.pos = Len(b.chars)]

\* LineBuffer::delete_to_end: chars.truncate(pos)
LineBuffer_delete_to_end(b) == [b EXCEPT !.chars = Take(b.chars, b.pos)]

\* delete_word, "Skip spaces"
RECURSIVE SkipSpaces(_, _)
SkipSpaces(chars, pos) ==
    IF pos > 0 /\ chars[pos] = SPACE THEN SkipSpaces(chars, pos - 1) ELSE pos

\* delete_word, "Skip word"
RECURSIVE SkipWord(_, _)
SkipWord(chars, pos) ==
    IF pos > 0 /\ chars[pos] # SPACE THEN SkipWord(chars, pos - 1) ELSE pos

\* the word removed, not the spaces after it
LineBuffer_delete_word_no_spaces(b) ==
    LET start == b.pos
        p     == SkipWord(b.chars, b.pos)
    IN  [chars |-> VecDrain(b.chars, p, start), pos |-> p]

\* LineBuffer::delete_word
LineBuffer_delete_word(b) ==
    LET start == b.pos
        p     == SkipWord(b.chars, SkipSpaces(b.chars, b.pos))
    IN  [chars |-> VecDrain(b.chars, p, start), pos |-> p]

\* LineBuffer::clear
LineBuffer_clear(b) == [chars |-> <<>>, pos |-> 0]

\* LineBuffer::set
LineBuffer_set(b, s) ==
    LET cs == Take(s, LINENOISE_MAX_LINE - 1)
    IN  [chars |-> cs, pos |-> Len(cs)]

\* the content up to the cursor only
LineBuffer_as_string_to_cursor(b) == Take(b.chars, b.pos)

\* LineBuffer::as_string
LineBuffer_as_string(b) == b.chars

(***************************************************************************)
(* io::Result values and the results of one read                           *)
(***************************************************************************)
OkLine(line) == [tag |-> "Ok", kind |-> "", val |-> Some(line)]

OkNone == [tag |-> "Ok", kind |-> "", val |-> None]

Err(k) == [tag |-> "Err", kind |-> k, val |-> None]

\* Err(io::Error::new(io::ErrorKind::WouldBlock, "More input needed"))
MoreInput == Err("WouldBlock")

\* no Result: the call panicked
Panicked == [tag |-> "Panic", kind |-> "", val |-> None]

\* Ctrl-C reported as "More input needed"
InterruptedErr_as_more == MoreInput

\* Err(io::Error::new(io::ErrorKind::Interrupted, ""))
InterruptedErr == Err("Interrupted")

\* one read(2) as read_byte / read_byte_nonblocking report it
RdByte(b) == [tag |-> "byte", b |-> b, kind |-> ""]

RdNone == [tag |-> "none", b |-> 0, kind |-> ""]

RdErr(k) == [tag |-> "err", b |-> 0, kind |-> k]

\* the n-th (1-based) further read of a feed; nothing more to read past the end
NthRead(more, n) == IF n <= Len(more) THEN more[n] ELSE RdNone

(***************************************************************************)
(* Editor: [terminal, buffer, prompt, history_index, saved_line,           *)
(* completion_state, old_rows, cursor_row_offset]                          *)
(***************************************************************************)
\* str::parse::<usize> on the digits s, acc being the value read so far
RECURSIVE ParseDigits(_, _)
ParseDigits(s, acc) ==
    IF s = <<>> THEN Some(acc)
    ELSE IF Head(s) \in 48..57
    THEN ParseDigits(Tail(s), acc * 10 + (Head(s) - 48))
    ELSE None

\* Terminal::get_cursor_position.  reply: the bytes read_byte finds after
\* ESC [ 6 n is written, nothing after them; write_ok: whether the write
\* succeeds.  "panic": the slice buf[2..i - 1] with i < 3.  read: the bytes
\* taken from the input descriptor.
get_cursor_position(reply, write_ok) ==
    LET Parse(s) == IF s = <<>> THEN None
                    ELSE IF Head(s) = 43 /\ Len(s) > 1 THEN ParseDigits(Tail(s), 0)
                    ELSE ParseDigits(s, 0)
        ends     == {j \in 1..Min(Len(reply), 31) : reply[j] = 82}
        i        == IF ends # {} THEN CHOOSE j \in ends : \A k \in ends : j <= k
                    ELSE 31
        read     == IF ~write_ok THEN 0
                    ELSE IF ends # {} THEN i ELSE Min(Len(reply), 31)
        Failed   == [tag |-> "err", rows |-> 0, cols |-> 0, read |-> read]
    IN  IF ~write_ok THEN Failed
        ELSE IF ends = {} /\ Len(reply) < 31 THEN Failed
        ELSE IF i < 3 THEN [tag |-> "panic", rows |-> 0, cols |-> 0, read |-> read]
        ELSE LET response == SubSeq(reply, 3, i - 1)
                 semis    == {j \in 1..Len(response) : response[j] = 59}
             IN  IF (\E j \in 1..Len(response) : response[j] >= 128) \/ semis = {}
                 THEN Failed
                 ELSE LET at   == CHOOSE j \in semis : \A k \in semis : j <= k
                          rows == Parse(SubSeq(response, 1, at - 1))
                          cols == Parse(SubSeq(response, at + 1, Len(response)))
                      IN  IF rows = None \/ cols = None THEN Failed
                          ELSE [tag |-> "ok", rows |-> rows[1], cols |-> cols[1],
                                read |-> read]

\* Terminal::get_columns.  ws_col: what the TIOCGWINSZ ioctl reports (0: the
\* ioctl failed or reported 0); reply1, reply2: the replies to the two
\* cursor-position queries.  Gives the width, or "panic"; wrote: the escape
\* sequences written to the output descriptor, read: the bytes taken from
\* the input descriptor.
get_columns(ws_col, reply1, reply2, write_ok) ==
    IF ws_col # 0 THEN [tag |-> "ret", cols |-> ws_col, wrote |-> 0, read |-> 0]
    ELSE LET orig_pos == get_cursor_position(reply1, write_ok)
         IN  IF orig_pos.tag = "panic"
             THEN [tag |-> "panic", cols |-> 0, wrote |-> 1, read |-> orig_pos.read]
             ELSE IF orig_pos.tag = "err" \/ ~write_ok
             THEN [tag |-> "ret", cols |-> 80,
                   wrote |-> IF write_ok THEN 1 ELSE 0, read |-> orig_pos.read]
             ELSE LET pos == get_cursor_position(reply2, write_ok)
                      restore == IF orig_pos.rows # 0 \/ orig_pos.cols # 0
                                 THEN 1 ELSE 0
                  IN  IF pos.tag = "panic"
                      THEN [tag |-> "panic", cols |-> 0, wrote |-> 3,
                            read |-> orig_pos.read + pos.read]
                      ELSE [tag   |-> "ret",
                            cols  |-> IF pos.tag = "err" THEN 80 ELSE pos.cols,
                            wrote |-> 3 + restore,
                            read  |-> orig_pos.read + pos.read]

Terminal_new(ifd, ofd, cols) == [ifd |-> ifd, ofd |-> ofd, cols |-> cols]

Editor_new(terminal, prompt) ==
    [terminal          |-> terminal,
     buffer            |-> LineBuffer_new,
     prompt            |-> prompt,
     history_index     |-> 0,
     saved_line        |-> None,
     completion_state  |-> None,
     old_rows          |-> 0,
     cursor_row_offset |-> 0]

\* the extra row added wherever the cursor is
MultilineRows_phantom_anywhere(plen, len, pos, cols) ==
    LET content_len  == plen + len
        cursor_pos   == plen + pos
        content_rows == IF content_len = 0 THEN 1
                        ELSE (content_len + cols - 1) \div cols
        phantom_line == cursor_pos > 0 /\ cursor_pos % cols = 0
        total_rows   == IF phantom_line THEN content_rows + 1 ELSE content_rows
        cursor_row   == IF cursor_pos = 0 THEN 0
                        ELSE IF phantom_line THEN content_rows
                        ELSE (cursor_pos - 1) \div cols
        cursor_col   == IF phantom_line THEN 0
                        ELSE IF cursor_pos = 0 THEN plen
                        ELSE ((cursor_pos - 1) % cols) + 1
    IN  [content_rows |-> content_rows, phantom_line |-> phantom_line,
         total_rows |-> total_rows, cursor_row |-> cursor_row,
         cursor_col |-> cursor_col]

\* refresh_multiline, "Calculate dimensions" to "Calculate where cursor should be"
MultilineRows(plen, len, pos, cols) ==
    LET content_len  == plen + len
        cursor_pos   == plen + pos
        content_rows == IF content_len = 0 THEN 1
                        ELSE (content_len + cols - 1) \div cols
        phantom_line == pos = len /\ cursor_pos > 0 /\ cursor_pos % cols = 0
        total_rows   == IF phantom_line THEN content_rows + 1 ELSE content_rows
        cursor_row   == IF cursor_pos = 0 THEN 0
                        ELSE IF phantom_line THEN content_rows
                        ELSE (cursor_pos - 1) \div cols
        cursor_col   == IF phantom_line THEN 0
                        ELSE IF cursor_pos = 0 THEN plen
                        ELSE ((cursor_pos - 1) % cols) + 1
    IN  [content_rows |-> content_rows, phantom_line |-> phantom_line,
         total_rows |-> total_rows, cursor_row |-> cursor_row,
         cursor_col |-> cursor_col]

\* refresh_multiline: the editor after the redraw ("Update state")
refresh_multiline(ed, g) ==
    LET r == MultilineRows(Len(ed.prompt), Len(ed.buffer.chars), ed.buffer.pos,
                           ed.terminal.cols)
    IN  [ed EXCEPT !.old_rows = r.total_rows, !.cursor_row_offset = r.cursor_row]

\* every row of the new block cleared, not those of the previous one
MultilineDraw_new_rows_only(ed) ==
    LET r == MultilineRows(Len(ed.prompt), Len(ed.buffer.chars), ed.buffer.pos,
                           ed.terminal.cols)
    IN  [up |-> ed.cursor_row_offset, cleared |-> r.total_rows]

\* refresh_multiline, "Then move up by our tracked offset" and "Now clear
\* everything": the n of ESC [ n A and the number of rows cleared
MultilineDraw(ed) ==
    LET r == MultilineRows(Len(ed.prompt), Len(ed.buffer.chars), ed.buffer.pos,
                           ed.terminal.cols)
    IN  [up |-> ed.cursor_row_offset, cleared |-> Max(ed.old_rows, r.total_rows)]

\* refresh_singleline keeps no state between redraws
refresh_singleline(ed, g) == ed

\* refresh_singleline, "Handle line that's too long" to "Position cursor":
\* where the rendered part of the content starts, how many characters it
\* has, and the column of the final "\r ESC [ n C"
SinglelineWindow(prompt_len, len, pos, cols) ==
    LET available_cols == saturating_sub(cols, prompt_len)
    IN  IF len > available_cols
        THEN LET window_start == saturating_sub(pos, available_cols \div 2)
                 window_end   == Min(window_start + available_cols, len)
                 actual_window_start == saturating_sub(window_end, available_cols)
             IN  [start |-> actual_window_start,
                  shown |-> Min(available_cols, len - actual_window_start),
                  cursor_screen_pos |->
                      prompt_len + saturating_sub(pos, actual_window_start)]
        ELSE [start |-> 0, shown |-> len, cursor_screen_pos |-> prompt_len + pos]

(***************************************************************************)
(* The output of a redraw: the characters and escape sequences pushed to   *)
(* the String that terminal.write receives, one element each.  kind        *)
(* "char": the character n; "sgr": ESC [ n m; "right", "up", "down":       *)
(* ESC [ n C, ESC [ n A, ESC [ n B; "erase_eol", "erase_line": ESC [ 0 K,  *)
(* ESC [ 2 K.  hint: what the hints callback answers for                   *)
(* buffer.as_string() (None: no hint), a record of text, color and bold.   *)
(***************************************************************************)
\* Editor::refresh_singleline, the output
SinglelineOutput(ed, g, hint) ==
    LET Ch(c)      == [kind |-> "char", n |-> c]
        Text(t)    == [i \in 1..Len(t) |-> Ch(t[i])]
        Seq1(k, n) == <<[kind |-> k, n |-> n]>>
        content    == IF g.mask_mode THEN [i \in 1..Len(ed.buffer.chars) |-> 42]
                      ELSE LineBuffer_as_string(ed.buffer)
        prompt_len == Len(ed.prompt)
        available_cols == saturating_sub(ed.terminal.cols, prompt_len)
        w          == SinglelineWindow(prompt_len, Len(content), ed.buffer.pos,
                                       ed.terminal.cols)
        remaining  == saturating_sub(available_cols, Len(content))
        hints      == IF /\ ed.completion_state = None
                         /\ g.hints_callback # None
                         /\ hint # None
                         /\ remaining > 0
                      THEN (IF hint[1].bold THEN Seq1("sgr", 1) ELSE <<>>)
                           \o (IF hint[1].color >= 0
                               THEN Seq1("sgr", hint[1].color) ELSE <<>>)
                           \o Text(Take(hint[1].text, remaining))
                           \o Seq1("sgr", 0)
                      ELSE <<>>
    IN  <<Ch(13)>> \o Text(ed.prompt)
        \o (IF Len(content) > available_cols
            THEN Text(SubSeq(content, w.start + 1, w.start + w.shown))
            ELSE Text(content) \o hints)
        \o Seq1("erase_eol", 0)
        \o <<Ch(13)>> \o Seq1("right", w.cursor_screen_pos)

\* Editor::refresh_multiline, the output
MultilineOutput(ed, g, hint) ==
    LET Ch(c)      == [kind |-> "char", n |-> c]
        Text(t)    == [i \in 1..Len(t) |-> Ch(t[i])]
        Seq1(k, n) == <<[kind |-> k, n |-> n]>>
        cols       == ed.terminal.cols
        r          == MultilineRows(Len(ed.prompt), Len(ed.buffer.chars),
                                    ed.buffer.pos, cols)
        d          == MultilineDraw(ed)
        content_len == Len(ed.prompt) + Len(ed.buffer.chars)
        clearing   == [j \in 1..(3 * d.cleared - 2) |->
                          IF j % 3 = 1 THEN [kind |-> "erase_line", n |-> 0]
                          ELSE IF j % 3 = 2 THEN Ch(13) ELSE Ch(10)]
        last_line_len == content_len % cols
        space      == IF last_line_len = 0 THEN 0 ELSE cols - last_line_len
        hints      == IF /\ r.content_rows = 1 /\ ~r.phantom_line
                         /\ ed.completion_state = None
                         /\ g.hints_callback # None
                         /\ hint # None
                         /\ space > 0
                         /\ Take(hint[1].text, space) # <<>>
                      THEN (IF hint[1].bold THEN Seq1("sgr", 1) ELSE <<>>)
                           \o (IF hint[1].color >= 0
                               THEN Seq1("sgr", hint[1].color) ELSE <<>>)
                           \o Text(Take(hint[1].text, space))
                           \o Seq1("sgr", 0)
                      ELSE <<>>
        current_row == r.total_rows - 1
    IN  <<Ch(13)>>
        \o (IF d.up > 0 THEN Seq1("up", d.up) ELSE <<>>)
        \o clearing
        \o (IF d.cleared > 1 THEN Seq1("up", d.cleared - 1) ELSE <<>>)
        \o <<Ch(13)>>
        \o Text(ed.prompt)
        \o Text(IF g.mask_mode THEN [i \in 1..Len(ed.buffer.chars) |-> 42]
                ELSE LineBuffer_as_string(ed.buffer))
        \o hints
        \o (IF r.phantom_line THEN <<Ch(13), Ch(10)>> ELSE <<>>)
        \o (IF r.cursor_row < current_row
            THEN Seq1("up", current_row - r.cursor_row)
            ELSE IF r.cursor_row > current_row
            THEN Seq1("down", r.cursor_row - current_row)
            ELSE <<>>)
        \o <<Ch(13)>> \o Seq1("right", r.cursor_col)

\* Editor::refresh_line.  env.cols is what get_columns returns, env.write_err
\* the error of the final terminal.write (None: written).
\* draw: what a multi-line redraw moved up by and cleared (None: single-line).
refresh_line(ed, g, env) ==
    LET e1 == [ed EXCEPT !.terminal.cols = env.cols]
    IN  [ed   |-> IF g.multi_line THEN refresh_multiline(e1, g)
                  ELSE refresh_singleline(e1, g),
         err  |-> env.write_err,
         draw |-> IF g.multi_line THEN Some(MultilineDraw(e1)) ELSE None]

(***************************************************************************)
(* What one call of process_key did: the editor afterwards, the returned   *)
(* Result, the number of bells and of redraws, the number of further bytes *)
(* read, the direction of a history step (0: none) and the line handed to  *)
(* the completion callback (None: not called); draws: what each redraw,    *)
(* in order, drew (set by the operators that redraw).                      *)
(***************************************************************************)
Out(ed, res, bell, refresh, reads, nav, gen) ==
    [ed |-> ed, res |-> res, bell |-> bell, refresh |-> refresh,
     reads |-> reads, nav |-> nav, gen |-> gen, draws |-> <<>>]

\* refresh_line()? followed by the "More input needed" return
RefreshThenMore(ed, g, env) ==
    LET r == refresh_line(ed, g, env)
    IN  [Out(r.ed, IF r.err = None THEN MoreInput ELSE Err(r.err[1]), 0, 1, 0, 0, None)
           EXCEPT !.draws = <<r.draw>>]

\* the key_action! macro
key_action(ed, g, env, buffer) ==
    RefreshThenMore([ed EXCEPT !.buffer = buffer], g, env)

\* handle_history, "Update history index"
NextHistoryIndex(index, history_len, direction) ==
    IF direction > 0
    THEN IF index < history_len THEN index + 1 ELSE index
    ELSE IF index > 0 THEN index - 1 ELSE index

\* the line saved at every step, not at the first one only
SaveLine_every_step(ed) ==
    [ed EXCEPT !.saved_line = Some(LineBuffer_as_string(ed.buffer))]

\* handle_history, "Save current line on first history access"
SaveLine(ed) ==
    IF ed.history_index = 0 /\ ed.saved_line = None
    THEN [ed EXCEPT !.saved_line = Some(LineBuffer_as_string(ed.buffer))]
    ELSE ed

\* handle_history, "Load history entry or restore saved line"
LoadEntry(ed, g) ==
    IF ed.history_index = 0
    THEN IF ed.saved_line # None
         THEN [ed EXCEPT !.buffer = LineBuffer_set(ed.buffer, ed.saved_line[1])]
         ELSE ed
    ELSE LET entry == History_get(g.history, ed.history_index)
         IN  IF entry # None
             THEN [ed EXCEPT !.buffer = LineBuffer_set(ed.buffer, entry[1])]
             ELSE ed

\* Editor::handle_history: the editor, the error (None: Ok) and the redraws
handle_history(ed, g, direction, env) ==
    LET history_len == Len(g.history.entries)
    IN  IF history_len = 0
        THEN [ed |-> ed, err |-> None, refresh |-> 0, draws |-> <<>>]
        ELSE LET e1 == SaveLine(ed)
                 e2 == [e1 EXCEPT !.history_index =
                           NextHistoryIndex(e1.history_index, history_len, direction)]
                 r  == refresh_line(LoadEntry(e2, g), g, env)
             IN  [ed |-> r.ed, err |-> r.err, refresh |-> 1, draws |-> <<r.draw>>]

\* the CtrlP / CtrlN arms of process_key
HistoryKey(ed, g, direction, env) ==
    LET h == handle_history(ed, g, direction, env)
    IN  [Out(h.ed, IF h.err = None THEN MoreInput ELSE Err(h.err[1]),
             0, h.refresh, 0, direction, None)
           EXCEPT !.draws = h.draws]

\* the callback given the displayed line at every Tab
LineForCompletion_displayed(ed) == LineBuffer_as_string(ed.buffer)

\* handle_completion, "Determine which line to use for completion"
LineForCompletion(ed) ==
    IF ed.completion_state # None
    THEN ed.completion_state[1].original_line
    ELSE LineBuffer_as_string(ed.buffer)

\* handle_completion, "Already in completion mode - cycle to next"
NextCandidate(current_index, n) == (current_index + 1) % n

\* the bell with the completion state left as it was
NoCompletions_keeps_state(ed, line) ==
    Out(ed, MoreInput, 1, 0, 0, 0, Some(line))

\* handle_completion, "if completions.is_empty()": bell, state cleared
NoCompletions(ed, line) ==
    Out([ed EXCEPT !.completion_state = None], MoreInput, 1, 0, 0, 0, Some(line))

\* Editor::handle_completion as the Tab arm of process_key uses it.
\* env.completions is what the callback pushes for LineForCompletion(ed).
handle_completion(ed, g, env) ==
    IF g.completion_callback = None
    THEN Out(ed, MoreInput, 0, 0, 0, 0, None)
    ELSE LET line        == LineForCompletion(ed)
             completions == env.completions
         IN  IF completions = <<>>
             THEN NoCompletions(ed, line)
             ELSE LET idx == IF ed.completion_state # None
                             THEN NextCandidate(ed.completion_state[1].current_index,
                                                Len(completions))
                             ELSE 0
                      e1  == [ed EXCEPT
                                !.completion_state =
                                    Some([original_line |-> line, current_index |-> idx]),
                                !.buffer = LineBuffer_set(ed.buffer, completions[idx + 1])]
                      r   == refresh_line(e1, g, env)
                 IN  [Out(r.ed, IF r.err = None THEN MoreInput ELSE Err(r.err[1]),
                          0, 1, 0, 0, Some(line))
                        EXCEPT !.draws = <<r.draw>>]

\* the buffer set back to the line the completion started from
accept_completion_reverting(ed) ==
    [ed EXCEPT !.completion_state = None,
               !.buffer = LineBuffer_set(ed.buffer,
                                         ed.completion_state[1].original_line)]

\* Editor::accept_completion
accept_completion(ed) == [ed EXCEPT !.completion_state = None]

(***************************************************************************)
(* Escape sequences.  more is the sequence of results of the feed's        *)
(* further reads, in order.                                                *)
(***************************************************************************)
\* ESC [ C and ESC [ D taken for each other
EscapeAction_left_right_swapped(b1, b2) ==
    IF b1 = 91 /\ b2 = 65 THEN "history_prev"
    ELSE IF b1 = 91 /\ b2 = 66 THEN "history_next"
    ELSE IF b1 = 91 /\ b2 = 67 THEN "move_left"
    ELSE IF b1 = 91 /\ b2 = 68 THEN "move_right"
    ELSE IF (b1 = 91 /\ b2 = 72) \/ (b1 = 79 /\ b2 = 72) THEN "move_home"
    ELSE IF (b1 = 91 /\ b2 = 70) \/ (b1 = 79 /\ b2 = 70) THEN "move_end"
    ELSE "none"

\* the match of handle_escape_sequence: the action of a two-byte sequence
EscapeAction(b1, b2) ==
    IF b1 = 91 /\ b2 = 65 THEN "history_prev"
    ELSE IF b1 = 91 /\ b2 = 66 THEN "history_next"
    ELSE IF b1 = 91 /\ b2 = 67 THEN "move_right"
    ELSE IF b1 = 91 /\ b2 = 68 THEN "move_left"
    ELSE IF (b1 = 91 /\ b2 = 72) \/ (b1 = 79 /\ b2 = 72) THEN "move_home"
    ELSE IF (b1 = 91 /\ b2 = 70) \/ (b1 = 79 /\ b2 = 70) THEN "move_end"
    ELSE "none"

\* handle_escape_sequence, "Special case for delete", entered with seq = [ '[', '3' ]
EscapeDelete(o, g, more, env) ==
    LET r3 == NthRead(more, 3)
    IN  IF r3.tag = "err"
        THEN [o EXCEPT !.res = Err(r3.kind), !.reads = 3]
        ELSE IF r3.tag = "byte" /\ r3.b = 126
        THEN LET d == LineBuffer_delete(o.ed.buffer)
             IN  IF d.ret
                 THEN LET r == refresh_line([o.ed EXCEPT !.buffer = d.b], g, env)
                      IN  [o EXCEPT !.ed = r.ed,
                                    !.res = IF r.err = None THEN MoreInput
                                            ELSE Err(r.err[1]),
                                    !.refresh = o.refresh + 1,
                                    !.reads = 3,
                                    !.draws = Append(o.draws, r.draw)]
                 ELSE [o EXCEPT !.reads = 3]
        ELSE [o EXCEPT !.reads = 3]

\* Editor::handle_escape_sequence as the Esc arm of process_key uses it
handle_escape_sequence(ed, g, more, env) ==
    LET r1 == NthRead(more, 1)
        r2 == NthRead(more, 2)
    IN  IF r1.tag = "err" THEN Out(ed, Err(r1.kind), 0, 0, 1, 0, None)
        ELSE IF r2.tag = "err" THEN Out(ed, Err(r2.kind), 0, 0, 2, 0, None)
        ELSE LET action == IF r1.tag = "byte" /\ r2.tag = "byte"
                           THEN EscapeAction(r1.b, r2.b) ELSE "none"
             IN  IF action = "history_prev" \/ action = "history_next"
                 THEN LET dir == IF action = "history_prev" THEN 1 ELSE -1
                          h   == handle_history(ed, g, dir, env)
                      IN  IF h.err # None
                          THEN [Out(h.ed, Err(h.err[1]), 0, h.refresh, 2, dir, None)
                                  EXCEPT !.draws = h.draws]
                          ELSE LET r == refresh_line(h.ed, g, env)
                               IN  [Out(r.ed,
                                        IF r.err = None THEN MoreInput ELSE Err(r.err[1]),
                                        0, h.refresh + 1, 2, dir, None)
                                      EXCEPT !.draws = Append(h.draws, r.draw)]
                 ELSE IF action # "none"
                 THEN LET b == CASE action = "move_right" -> LineBuffer_move_right(ed.buffer).b
                                 [] action = "move_left"  -> LineBuffer_move_left(ed.buffer).b
                                 [] action = "move_home"  -> LineBuffer_move_home(ed.buffer)
                                 [] action = "move_end"   -> LineBuffer_move_end(ed.buffer)
                          o == RefreshThenMore([ed EXCEPT !.buffer = b], g, env)
                      IN  [o EXCEPT !.reads = 2]
                 ELSE IF r1.tag = "byte" /\ r1.b = 91 /\ r2.tag = "byte" /\ r2.b = 51
                 THEN EscapeDelete(Out(ed, MoreInput, 0, 0, 2, 0, None), g, more, env)
                 ELSE Out(ed, MoreInput, 0, 0, 2, 0, None)

(***************************************************************************)
(* UTF-8                                                                   *)
(***************************************************************************)
\* c & mask for a mask of leading one bits (0xC0, 0xE0, 0xF0, 0xF8)
HighBits(c, mask) == c - (c % (256 - mask))

\* a four-byte lead taken for a three-byte one
BytesNeeded_three_at_most(c) ==
    IF HighBits(c, 224) = 192 THEN 2
    ELSE IF HighBits(c, 240) = 224 THEN 3
    ELSE IF HighBits(c, 248) = 240 THEN 3
    ELSE 1

\* process_key, "Determine how many bytes we need"
BytesNeeded(c) ==
    IF HighBits(c, 224) = 192 THEN 2
    ELSE IF HighBits(c, 240) = 224 THEN 3
    ELSE IF HighBits(c, 248) = 240 THEN 4
    ELSE 1

\* next_byte & 0xC0 == 0x80
IsContinuation(b) == HighBits(b, 192) = 128

\* process_key, "Read remaining bytes": the buffer and the number of reads made,
\* having read k bytes so far
RECURSIVE ReadRemaining(_, _, _, _)
ReadRemaining(buf, needed, more, k) ==
    IF Len(buf) >= needed
    THEN [buf |-> buf, reads |-> k]
    ELSE LET r == NthRead(more, k + 1)
         IN  IF r.tag = "byte" /\ IsContinuation(r.b)
             THEN ReadRemaining(Append(buf, r.b), needed, more, k + 1)
             ELSE [buf |-> buf, reads |-> k + 1]

\* std::str::from_utf8 on a sequence of one scalar's length: well-formed
\* (no overlong form, no surrogate, at most U+10FFFF)
Utf8WellFormed(u) ==
    /\ BytesNeeded(u[1]) = Len(u)
    /\ \A i \in 2..Len(u) : IsContinuation(u[i])
    /\ CASE Len(u) = 1 -> u[1] < 128
         [] Len(u) = 2 -> u[1] >= 194
         [] Len(u) = 3 -> /\ (u[1] = 224 => u[2] >= 160)
                          /\ (u[1] = 237 => u[2] <= 159)
         [] Len(u) = 4 -> /\ u[1] <= 244
                          /\ (u[1] = 240 => u[2] >= 144)
                          /\ (u[1] = 244 => u[2] <= 143)
         [] OTHER -> FALSE

\* the scalar value a well-formed sequence encodes
Utf8Decode(u) ==
    CASE Len(u) = 1 -> u[1]
      [] Len(u) = 2 -> (u[1] - 192) * 64 + (u[2] - 128)
      [] Len(u) = 3 -> (u[1] - 224) * 4096 + (u[2] - 128) * 64 + (u[3] - 128)
      [] OTHER -> (u[1] - 240) * 262144 + (u[2] - 128) * 4096
                  + (u[3] - 128) * 64 + (u[4] - 128)

\* the insert arms of process_key: insert, then redraw or bell
InsertChar(ed, g, ch, env) ==
    LET i == LineBuffer_insert(ed.buffer, ch)
    IN  IF i.ret
        THEN key_action(ed, g, env, i.b)
        ELSE Out(ed, MoreInput, 1, 0, 0, 0, None)

\* the "c >= 128" arm of process_key
Utf8Key(ed, g, c, more, env) ==
    LET needed == BytesNeeded(c)
        rd     == ReadRemaining(<<c>>, needed, more, 0)
    IN  IF Len(rd.buf) = needed
        THEN IF Utf8WellFormed(rd.buf)
             THEN [InsertChar(ed, g, Utf8Decode(rd.buf), env) EXCEPT !.reads = rd.reads]
             ELSE Out(ed, MoreInput, 0, 0, rd.reads, 0, None)
        ELSE Out(ed, MoreInput, 1, 0, rd.reads, 0, None)

(***************************************************************************)
(* Editor::process_key                                                     *)
(***************************************************************************)
\* transpose advancing the cursor at the end of the line too
Transpose_always_advances(b) ==
    IF b.pos > 0 /\ Len(b.chars) > 1
    THEN IF b.pos = Len(b.chars)
         THEN [b |-> [chars |-> VecSwap(b.chars, b.pos - 2, b.pos - 1),
                      pos |-> b.pos + 1],
               ret |-> TRUE]
         ELSE [b |-> [chars |-> VecSwap(b.chars, b.pos - 1, b.pos), pos |-> b.pos + 1],
               ret |-> TRUE]
    ELSE [b |-> b, ret |-> FALSE]

\* the CtrlT arm, "Transpose chars": the buffer, and whether it changed
Transpose(b) ==
    IF b.pos > 0 /\ Len(b.chars) > 1
    THEN IF b.pos = Len(b.chars)
         THEN [b |-> [b EXCEPT !.chars = VecSwap(b.chars, b.pos - 2, b.pos - 1)],
               ret |-> TRUE]
         ELSE [b |-> [chars |-> VecSwap(b.chars, b.pos - 1, b.pos), pos |-> b.pos + 1],
               ret |-> TRUE]
    ELSE [b |-> b, ret |-> FALSE]

\* end of input signalled whenever there is nothing to delete
CtrlDKey_eof_at_end(ed, g, env) ==
    LET d == LineBuffer_delete(ed.buffer)
    IN  IF d.ret THEN key_action(ed, g, env, d.b)
        ELSE Out(ed, OkNone, 0, 0, 0, 0, None)

\* the CtrlD arm
CtrlDKey(ed, g, env) ==
    IF ed.buffer.chars = <<>>
    THEN Out(ed, OkNone, 0, 0, 0, 0, None)
    ELSE LET d == LineBuffer_delete(ed.buffer)
         IN  IF d.ret THEN key_action(ed, g, env, d.b)
             ELSE Out(ed, MoreInput, 0, 0, 0, 0, None)

\* the CtrlL arm: clear_screen()?, reset of the render state, redraw
CtrlLKey(ed, g, env) ==
    IF env.write_err # None
    THEN Out(ed, Err(env.write_err[1]), 0, 0, 0, 0, None)
    ELSE RefreshThenMore([ed EXCEPT !.old_rows = 0, !.cursor_row_offset = 0], g, env)

\* the CtrlT arm
CtrlTKey(ed, g, env) ==
    LET t == Transpose(ed.buffer)
    IN  IF t.ret THEN key_action(ed, g, env, t.b)
        ELSE Out(ed, MoreInput, 0, 0, 0, 0, None)

\* the completion state kept whatever the key
ClearCompletion_never(ed, c) == ed

\* process_key, "Handle completion state"
ClearCompletion(ed, c) ==
    IF ed.completion_state # None /\ c # Tab THEN accept_completion(ed) ELSE ed

\* Editor::process_key(c).  more: the results of the further reads; env: cols,
\* write_err, completions.
process_key(ed0, g, c, more, env) ==
    LET ed == ClearCompletion(ed0, c)
        b  == ed.buffer
    IN  CASE c = Enter -> Out(ed, OkLine(LineBuffer_as_string(b)), 0, 0, 0, 0, None)
          [] c = CtrlC -> Out(ed, InterruptedErr, 0, 0, 0, 0, None)
          [] c = CtrlD -> CtrlDKey(ed, g, env)
          [] c = Tab   -> handle_completion(ed, g, env)
          [] c = Backspace \/ c = CtrlH ->
                 key_action(ed, g, env, LineBuffer_backspace(b).b)
          [] c = CtrlU -> key_action(ed, g, env, LineBuffer_clear(b))
          [] c = CtrlK -> key_action(ed, g, env, LineBuffer_delete_to_end(b))
          [] c = CtrlW -> key_action(ed, g, env, LineBuffer_delete_word(b))
          [] c = CtrlA -> key_action(ed, g, env, LineBuffer_move_home(b))
          [] c = CtrlE -> key_action(ed, g, env, LineBuffer_move_end(b))
          [] c = CtrlB -> key_action(ed, g, env, LineBuffer_move_left(b).b)
          [] c = CtrlF -> key_action(ed, g, env, LineBuffer_move_right(b).b)
          [] c = CtrlP -> HistoryKey(ed, g, 1, env)
          [] c = CtrlN -> HistoryKey(ed, g, -1, env)
          [] c = CtrlL -> CtrlLKey(ed, g, env)
          [] c = CtrlT -> CtrlTKey(ed, g, env)
          [] c = Esc   -> handle_escape_sequence(ed, g, more, env)
          [] c >= 32 /\ c < 127 -> InsertChar(ed, g, c, env)
          [] c >= 128 -> Utf8Key(ed, g, c, more, env)
          [] OTHER -> Out(ed, MoreInput, 0, 0, 0, 0, None)

(***************************************************************************)
(* The multiplexed API.  LinenoiseState: [editor, active, raw_guard]       *)
(***************************************************************************)
GlobalState_new ==
    [multi_line          |-> FALSE,
     mask_mode           |-> FALSE,
     history             |-> History_new,
     completion_callback |-> None,
     hints_callback      |-> None,
     raw_mode            |-> FALSE,
     orig_termios        |-> None]

\* LinenoiseState::edit_start.  width: what the get_columns of Terminal::new
\* gave, wrote and read; env: is_tty and unsupported_term (the test of line 1332), raw (the
\* calls of enable_raw_mode), cols, write_err.
\* Gives the state (None: Err), the Result, the terminal's attributes, the
\* global state, whether raw mode was enabled and the guard dropped, and
\* term: whether the input is a terminal and what Terminal::new wrote and read.
edit_start(tty, g, ifd, ofd, prompt, env, width) ==
    LET terminal == Terminal_new(ifd, ofd, width.cols)
        term     == [is_tty |-> env.is_tty, wrote |-> width.wrote,
                     read |-> width.read]
    IN  IF width.tag = "panic"
        THEN [st |-> None, res |-> Panicked, tty |-> tty, g |-> g,
              enabled |-> FALSE, dropped |-> FALSE, term |-> term]
        ELSE IF ~env.is_tty \/ env.unsupported_term
        THEN [st |-> None, res |-> Err("Other"), tty |-> tty, g |-> g,
              enabled |-> FALSE, dropped |-> FALSE, term |-> term]
        ELSE LET e == enable_raw_mode(terminal, tty, g, env.raw)
             IN  IF e.guard = None
                 THEN [st |-> None, res |-> Err(e.err), tty |-> e.tty, g |-> e.g,
                       enabled |-> FALSE, dropped |-> FALSE, term |-> term]
                 ELSE LET r == refresh_line(Editor_new(terminal, prompt), e.g, env)
                      IN  IF r.err # None
                          THEN LET d == RawModeGuard_drop(e.guard[1], e.g)
                               IN  [st |-> None, res |-> Err(r.err[1]),
                                    tty |-> d.tty, g |-> d.g,
                                    enabled |-> TRUE, dropped |-> TRUE,
                                    term |-> term]
                          ELSE [st |-> Some([editor    |-> r.ed,
                                             active    |-> TRUE,
                                             raw_guard |-> e.guard]),
                                res |-> OkNone, tty |-> e.tty, g |-> e.g,
                                enabled |-> TRUE, dropped |-> FALSE,
                                term |-> term]

\* edit_feed, the arms of "match self.editor.process_key(c)": whether the
\* session stays active after the key's result
ActiveAfter(res) ==
    IF res.tag = "Ok" THEN res.val = None ELSE res.kind # "Interrupted"

\* LinenoiseState::edit_feed.  rd: the result of read_byte; more, env: as for
\* process_key.  Gives the state, what process_key did (Out), whether the
\* descriptor was read and the key handed to process_key (-1: none).
edit_feed(s, g, rd, more, env) ==
    IF ~s.active
    THEN [s |-> s, out |-> Out(s.editor, OkNone, 0, 0, 0, 0, None),
          read |-> FALSE, key |-> -1]
    ELSE IF rd.tag = "err"
    THEN [s |-> s, out |-> Out(s.editor, Err(rd.kind), 0, 0, 0, 0, None),
          read |-> TRUE, key |-> -1]
    ELSE IF rd.tag = "none"
    THEN [s |-> [s EXCEPT !.active = FALSE],
          out |-> Out(s.editor, OkNone, 0, 0, 0, 0, None),
          read |-> TRUE, key |-> -1]
    ELSE LET o == process_key(s.editor, g, rd.b, more, env)
         IN  [s |-> [s EXCEPT !.editor = o.ed, !.active = ActiveAfter(o.res)],
              out |-> o, read |-> TRUE, key |-> rd.b]

\* edit_stop forgetting the guard instead of dropping it
edit_stop_forgets_guard(s) ==
    IF s.active
    THEN [s |-> [s EXCEPT !.active = FALSE, !.raw_guard = None], dropped |-> None]
    ELSE [s |-> s, dropped |-> None]

\* LinenoiseState::edit_stop: the state, and the guard it dropped (None: none)
edit_stop(s) ==
    IF s.active
    THEN [s |-> [s EXCEPT !.active = FALSE, !.raw_guard = None],
          dropped |-> s.raw_guard]
    ELSE [s |-> s, dropped |-> None]

\* the drop of a LinenoiseState: the guard its field still holds
DroppedWithState(s) == s.raw_guard

(***************************************************************************)
(* The inputs of the actions                                               *)
(***************************************************************************)
\* U+00E9, which the bytes 0xC3 0xA9 encode
EAcute == Utf8Decode(<<195, 169>>)

\* a line one character longer than the buffer may hold
LongLine == [i \in 1..LINENOISE_MAX_LINE |-> EAcute]

\* the lines given to linenoise_history_add
Lines == {<<>>, <<EAcute>>, <<EAcute, SPACE>>, LongLine}

\* the prompts given to edit_start ("> ")
Prompts == {<<62, 32>>}

\* the widths get_columns reports
TermCols == {5}

\* the candidate lists the completion callback returns
CandidateLists == {<<>>, <<<<SPACE, EAcute>>>>, <<<<EAcute>>, LongLine>>}

\* the error of a failing write(2), per ErrorKind
WriteErrs == {None, Some("Uncategorized")}

\* the kinds of error a failing read(2) or fcntl(2) gives; EINTR is retried
\* by read_byte and never returned
ReadErrKinds == {"Uncategorized", "WouldBlock"}

\* the keys of enum Key
ControlKeys ==
    {CtrlA, CtrlB, CtrlC, CtrlD, CtrlE, CtrlF, CtrlH, Tab, CtrlK, CtrlL, Enter,
     CtrlN, CtrlP, CtrlT, CtrlU, CtrlW, Esc, Backspace}

\* the bytes typed: the keys, NUL (no arm), ' ', the UTF-8 lead 0xC3 and the
\* stray continuation byte 0x80
KeyBytes == ControlKeys \cup {0, SPACE, 195, 128}

\* what follows ESC in the input: the recognized sequences, ESC O A..D,
\* ESC [ 3 with and without '~', ESC [ 1 ~, cut sequences and a failing read
EscTails ==
    {<<RdByte(a), RdByte(b)>> : a \in {91, 79}, b \in {65, 66, 67, 68, 70, 72}}
    \cup {<<RdByte(91), RdByte(51), RdByte(126)>>,
          <<RdByte(91), RdByte(51), RdByte(65)>>,
          <<RdByte(91), RdByte(51)>>,
          <<RdByte(91), RdByte(51), RdErr("Uncategorized")>>,
          <<RdByte(91), RdByte(49), RdByte(126)>>,
          <<RdByte(91)>>,
          <<>>,
          <<RdErr("Uncategorized")>>,
          <<RdByte(91), RdErr("Uncategorized")>>}

\* what follows a byte >= 0x80: a continuation byte, a byte that is none, the
\* end of the input, a failing read
Utf8Tails ==
    {<<RdByte(169)>>, <<RdByte(97)>>, <<>>, <<RdErr("Uncategorized")>>}

\* the results of the further reads a feed of byte c may see
Tails(rd) ==
    IF rd.tag # "byte" THEN {<<>>}
    ELSE IF rd.b = Esc THEN EscTails
    ELSE IF rd.b >= 128 THEN Utf8Tails
    ELSE {<<>>}

\* the results of the first read of a feed: a byte of B, the end of the input
\* or an error of a kind of K
ReadResults(B, K) ==
    {RdByte(b) : b \in B} \cup {RdNone} \cup {RdErr(k) : k \in K}

\* the system's answers during one feed
FeedEnvs(C, W, rd) ==
    [cols        : C,
     write_err   : W,
     completions : IF rd.tag = "byte" /\ rd.b = Tab THEN CandidateLists ELSE {<<>>}]

\* the bytes on the input descriptor when edit_start is called: nothing,
\* "hi\n", the reply ESC [ 1 ; 5 R
StartInputs == {<<>>, <<104, 105, 10>>, <<Esc, 91, 49, 59, 53, 82>>}

\* the system's answers during edit_start
StartEnvs(C) ==
    [winsize_ok       : BOOLEAN,
     waiting          : StartInputs,
     is_tty           : BOOLEAN,
     unsupported_term : BOOLEAN,
     raw              : [is_tty : BOOLEAN, tcgetattr_ok : BOOLEAN,
                         tcsetattr_ok : BOOLEAN],
     cols             : C,
     write_err        : WriteErrs]

\* edit_start on a terminal, every call succeeding
StartOkEnvs(C) ==
    [winsize_ok       : {TRUE},
     waiting          : {<<>>},
     is_tty           : {TRUE},
     unsupported_term : {FALSE},
     raw              : {[is_tty |-> TRUE, tcgetattr_ok |-> TRUE,
                          tcsetattr_ok |-> TRUE]},
     cols             : C,
     write_err        : {None}]

(***************************************************************************)
(* State                                                                   *)
(***************************************************************************)
VARIABLES
    tty,    \* the attributes of the terminal device
    G,      \* the process-wide GlobalState
    st,     \* Option<LinenoiseState>: the caller's session object
    op,     \* the last call of the API: its name, arguments and result, the
            \* direction of the history step it made and the number of
            \* history entries it popped
    io,     \* what the last traced feed read and wrote: the key, the results
            \* of its further reads, bells, redraws, the completion call,
            \* the completion state it found, what its redraws drew
    life,   \* counts of edit_start calls, of successful enable_raw_mode calls
            \* and of RawModeGuard drops; the attributes captured at enable
    track,  \* the run of "older" then "newer" steps made from a fresh line
    tabs,   \* the run of consecutive Tab keys of the traced feeds
    input,  \* the bytes waiting on the input descriptor, the stream they are
            \* the rest of, the buffer and the history index when that
            \* stream arrived and the bells sounded since
    app     \* the last application of a function on its own: its name, its
            \* arguments and its result

vars == <<tty, G, st, op, io, life, track, tabs, input, app>>

BoolRet(b) == [tag |-> "Bool", kind |-> IF b THEN "true" ELSE "false", val |-> None]

NoCall ==
    [name |-> "none", res |-> OkNone, nav |-> 0, line |-> <<>>, n |-> 0,
     popped |-> 0, term |-> [is_tty |-> TRUE, wrote |-> 0, read |-> 0]]

Call(name, res) == [NoCall EXCEPT !.name = name, !.res = res]

NoIo ==
    [key |-> -1, more |-> <<>>, completions |-> <<>>, bell |-> 0, refresh |-> 0,
     reads |-> 0, gen |-> None, pending |-> None, draws |-> <<>>]

TrackOff == [on |-> FALSE, s |-> <<>>, h |-> 0, ups |-> 0, downs |-> 0]

\* the run of history steps after a feed: it starts with an "older" step from
\* a fresh line (index 0, nothing saved, history not empty), goes on with
\* "older" steps up to the history length it started with, then "newer" steps
TrackAfter(t, s, g, f) ==
    IF f.key = -1 THEN t
    ELSE IF f.out.nav = 1
    THEN IF s.editor.history_index = 0 /\ s.editor.saved_line = None
            /\ Len(g.history.entries) >= 1
         THEN [on |-> TRUE, s |-> s.editor.buffer.chars,
               h |-> Len(g.history.entries), ups |-> 1, downs |-> 0]
         ELSE IF t.on /\ t.downs = 0 /\ t.ups < t.h
         THEN [t EXCEPT !.ups = t.ups + 1]
         ELSE TrackOff
    ELSE IF f.out.nav = -1 /\ t.on /\ t.downs < t.ups
    THEN [t EXCEPT !.downs = t.downs + 1]
    ELSE TrackOff

\* no run of Tab keys: k = 0 before a run, k = -1 once a run is no longer
\* followed (the callback returned nothing, or the run exceeded MaxTabs)
TabsOff == [k |-> 0, s |-> <<>>, n |-> 0]

\* the run of Tab keys after a feed: k Tab keys in a row from the line s, the
\* callback returning at least one candidate each time; n is the number of
\* candidates if every call returned as many, else 0
TabsAfter(t, s, g, f, env) ==
    IF f.key = -1 THEN t
    ELSE IF f.key # Tab THEN TabsOff
    ELSE IF g.completion_callback = None \/ env.completions = <<>> \/ t.k = -1
            \/ t.k >= MaxTabs
    \* the run is no longer followed
    THEN [k |-> -1, s |-> <<>>, n |-> 0]
    ELSE IF t.k = 0
    THEN [k |-> 1, s |-> LineBuffer_as_string(s.editor.buffer),
          n |-> Len(env.completions)]
    ELSE [k |-> t.k + 1, s |-> t.s,
          n |-> IF t.n = Len(env.completions) THEN t.n ELSE 0]

\* no function applied on its own
NoApp == [name |-> "none", arg |-> <<>>, ret |-> <<>>]

\* nothing waiting on the input descriptor
NoInput == [bytes |-> <<>>, stream |-> <<>>, ed0 |-> None, bell |-> 0]

\* the further reads of a feed that finds the bytes rest after its first byte
MoreOf(rest) == [i \in 1..Len(rest) |-> RdByte(rest[i])]

\* the number of waiting bytes a feed took: the byte read_byte returned and
\* the bytes its further reads found
Consumed(f, bytes) ==
    IF f.read THEN 1 + Min(f.out.reads, Len(bytes) - 1) ELSE 0

\* the terminal and the global state once a guard (None: none) is dropped
AfterDrop(guard, t, g) ==
    IF guard = None THEN [tty |-> t, g |-> g] ELSE RawModeGuard_drop(guard[1], g)

Count(b) == IF b THEN 1 ELSE 0

Init ==
    /\ tty \in InitialTermios
    /\ G = GlobalState_new
    /\ st = None
    /\ op = NoCall
    /\ io = NoIo
    /\ life = [starts |-> 0, enables |-> 0, restores |-> 0, snapshot |-> tty]
    /\ track = TrackOff
    /\ tabs = TabsOff
    /\ input = NoInput
    /\ app = NoApp

(***************************************************************************)
(* Actions: one per call of the public API, and the drop of the session    *)
(***************************************************************************)
EditStartWith(P, E) ==
    /\ st = None
    /\ life.starts < MaxSessions
    /\ \E prompt \in P, env \in E :
          \* Terminal::new: the ioctl gives env.cols or fails, and the two
          \* cursor-position queries read the bytes of env.waiting in turn
          \E first \in {get_cursor_position(env.waiting, env.write_err = None)} :
          \E width \in {get_columns(IF env.winsize_ok THEN env.cols ELSE 0,
                                    env.waiting,
                                    SubSeq(env.waiting, first.read + 1,
                                           Len(env.waiting)),
                                    env.write_err = None)} :
          \E r \in {edit_start(tty, G, 0, 1, prompt, env, width)} :
              /\ tty' = r.tty
              /\ G' = r.g
              /\ st' = r.st
              /\ op' = [Call("edit_start", r.res) EXCEPT !.term = r.term]
              /\ life' = [starts   |-> life.starts + 1,
                          enables  |-> life.enables + Count(r.enabled),
                          restores |-> life.restores + Count(r.dropped),
                          snapshot |-> IF r.enabled THEN tty ELSE life.snapshot]
              /\ track' = TrackOff
              /\ tabs' = TabsOff
              /\ UNCHANGED <<io, input, app>>

\* edit_feed with the first read's result in ReadResults(B, K), the width in C
\* and the write's error in W; traced: whether io records the feed
EditFeedWith(B, K, C, W, traced) ==
    /\ st # None
    /\ \E rd \in ReadResults(B, K) :
          \E more \in Tails(rd), env \in FeedEnvs(C, W, rd) :
             \E f \in {edit_feed(st[1], G, rd, more, env)} :
                 /\ st' = Some(f.s)
                 /\ op' = [Call("edit_feed", f.out.res) EXCEPT !.nav = f.out.nav]
                 /\ io' = IF traced
                          THEN [key         |-> f.key,
                                more        |-> more,
                                completions |-> env.completions,
                                bell        |-> f.out.bell,
                                refresh     |-> f.out.refresh,
                                reads       |-> f.out.reads,
                                gen         |-> f.out.gen,
                                pending     |-> st[1].editor.completion_state,
                                draws       |-> f.out.draws]
                          ELSE io
                 /\ track' = TrackAfter(track, st[1], G, f)
                 /\ tabs' = IF traced THEN TabsAfter(tabs, st[1], G, f, env) ELSE tabs
                 /\ UNCHANGED <<tty, G, life, input, app>>

\* a stream of S arrives on the input descriptor, nothing waiting there
TypeWith(S) ==
    /\ st # None
    /\ st[1].active
    /\ input.bytes = <<>>
    /\ \E stream \in S :
          input' = [bytes |-> stream, stream |-> stream,
                    ed0 |-> Some([buffer        |-> st[1].editor.buffer,
                                  history_index |-> st[1].editor.history_index]),
                    bell |-> 0]
    /\ UNCHANGED <<tty, G, st, op, io, life, track, tabs, app>>

\* edit_feed reading the bytes that wait on the input descriptor: read_byte
\* gets the first one, the further reads the next ones, in order, and
\* nothing past the last; the bytes read are gone.  Each feed is traced.
EditFeedInput(C, W) ==
    /\ st # None
    /\ input.bytes # <<>>
    /\ \E rd \in {RdByte(Head(input.bytes))}, more \in {MoreOf(Tail(input.bytes))} :
          \E env \in FeedEnvs(C, W, rd) :
             \E f \in {edit_feed(st[1], G, rd, more, env)} :
                 /\ st' = Some(f.s)
                 /\ op' = [Call("edit_feed", f.out.res) EXCEPT !.nav = f.out.nav]
                 /\ io' = [key         |-> f.key,
                           more        |-> more,
                           completions |-> env.completions,
                           bell        |-> f.out.bell,
                           refresh     |-> f.out.refresh,
                           reads       |-> f.out.reads,
                           gen         |-> f.out.gen,
                           pending     |-> st[1].editor.completion_state,
                           draws       |-> f.out.draws]
                 /\ track' = TrackAfter(track, st[1], G, f)
                 /\ tabs' = TabsAfter(tabs, st[1], G, f, env)
                 /\ input' = [input EXCEPT
                                !.bytes = SubSeq(input.bytes,
                                                 Consumed(f, input.bytes) + 1,
                                                 Len(input.bytes)),
                                !.bell = input.bell + f.out.bell]
                 /\ UNCHANGED <<tty, G, life, app>>

EditStop ==
    /\ st # None
    /\ LET r == edit_stop(st[1])
           d == AfterDrop(r.dropped, tty, G)
       IN  /\ st' = Some(r.s)
           /\ tty' = d.tty
           /\ G' = d.g
           /\ life' = [life EXCEPT !.restores = life.restores + Count(r.dropped # None)]
           /\ op' = Call("edit_stop", OkNone)
           /\ track' = TrackOff
           /\ tabs' = TabsOff
           /\ UNCHANGED <<io, input, app>>

DropState ==
    /\ st # None
    /\ LET guard == DroppedWithState(st[1])
           d     == AfterDrop(guard, tty, G)
       IN  /\ st' = None
           /\ tty' = d.tty
           /\ G' = d.g
           /\ life' = [life EXCEPT !.restores = life.restores + Count(guard # None)]
           /\ op' = Call("drop", OkNone)
           /\ track' = TrackOff
           /\ tabs' = TabsOff
           /\ UNCHANGED <<io, input, app>>

HistoryAddWith(L) ==
    \E line \in L :
       LET r == History_add(G.history, line)
       IN  /\ G' = [G EXCEPT !.history = r.h]
           /\ op' = [Call("history_add", BoolRet(r.ret)) EXCEPT
                       !.line = line,
                       !.popped = Len(G.history.entries) + Count(r.ret)
                                  - Len(r.h.entries)]
           /\ UNCHANGED <<tty, st, io, life, track, tabs, input, app>>

HistorySetMaxLenWith(N) ==
    \E len \in N :
       LET r == History_set_max_len(G.history, len)
       IN  /\ G' = [G EXCEPT !.history = r.h]
           /\ op' = [Call("history_set_max_len", BoolRet(r.ret)) EXCEPT
                       !.n = len,
                       !.popped = Len(G.history.entries) - Len(r.h.entries)]
           /\ UNCHANGED <<tty, st, io, life, track, tabs, input, app>>

(***************************************************************************)
(* Spec: the life of sessions.  Every outcome of edit_start, the feeds     *)
(* that end a session or keep it going, edit_stop and the drop, in any     *)
(* order, over MaxSessions sessions.                                       *)
(***************************************************************************)
\* the keys that decide a session's life: Enter, Ctrl-C, Ctrl-D, a character,
\* Backspace
LifeBytes == {Enter, CtrlC, CtrlD, SPACE, Backspace}

Next ==
    \/ EditStartWith(Prompts, StartEnvs(TermCols))
    \/ EditFeedWith(LifeBytes, ReadErrKinds, TermCols, WriteErrs, FALSE)
    \/ EditStop
    \/ DropState

Spec == Init /\ [][Next]_vars

(***************************************************************************)
(* SpecHistory: the history API alone, any sequence of calls.              *)
(***************************************************************************)
HistorySetMaxLen == HistorySetMaxLenWith(0..MaxLenArg)

NextHistory ==
    \/ HistoryAddWith(Lines)
    \/ HistorySetMaxLen

SpecHistory == Init /\ [][NextHistory]_vars

(***************************************************************************)
(* SpecEdit: one session fed every key in any order, over a history and a  *)
(* completion callback set up before the session starts.                   *)
(***************************************************************************)
\* the ring the session finds: two entries, the older too long for the buffer
EditHistory == [max_len |-> 2, entries |-> <<LongLine, <<EAcute, SPACE>>>>]

InitEdit ==
    /\ tty = CookedTermios
    /\ G = [GlobalState_new EXCEPT !.history = EditHistory,
                                   !.completion_callback = Some("cb")]
    /\ st = None
    /\ op = NoCall
    /\ io = NoIo
    /\ life = [starts |-> 0, enables |-> 0, restores |-> 0, snapshot |-> tty]
    /\ track = TrackOff
    /\ tabs = TabsOff
    /\ input = NoInput
    /\ app = NoApp

EditStartOk == EditStartWith(Prompts, StartOkEnvs(TermCols))

NextEdit ==
    \/ EditStartOk
    \/ EditFeedWith(KeyBytes, {}, TermCols, {None}, FALSE)

SpecEdit == InitEdit /\ [][NextEdit]_vars

(***************************************************************************)
(* SpecCap: one session filling its buffer from the keyboard, the history  *)
(* and the completion callback, each feed traced.                          *)
(***************************************************************************)
\* ' ', the UTF-8 lead 0xC3, Tab, older, left
CapBytes == {SPACE, 195, Tab, CtrlP, CtrlB}

NextCap ==
    \/ EditStartOk
    \/ EditFeedWith(CapBytes, {}, TermCols, WriteErrs, TRUE)

SpecCap == InitEdit /\ [][NextCap]_vars

(***************************************************************************)
(* SpecNav: one session stepping through the history and typing, while the *)
(* caller adds to the shared history and changes its maximum length.       *)
(***************************************************************************)
\* older and newer (Ctrl-P, Ctrl-N), a character, Backspace
NavBytes == {CtrlP, CtrlN, SPACE, Backspace}

NextNav ==
    \/ EditStartOk
    \/ EditFeedWith(NavBytes, {}, TermCols, {None}, FALSE)
    \* the lines the caller adds during the session
    \/ HistoryAddWith({<<EAcute>>, <<EAcute, SPACE>>})
    \/ HistorySetMaxLen

SpecNav == Init /\ [][NextNav]_vars


(***************************************************************************)
(* SpecTab: one session fed Tab and the keys that end a run of Tab keys,   *)
(* each feed traced, every read and write succeeding.                      *)
(***************************************************************************)
\* Tab, ' ', Enter, left, older, delete-line
TabBytes == {Tab, SPACE, Enter, CtrlB, CtrlP, CtrlU}

NextTab ==
    \/ EditStartOk
    \/ EditFeedWith(TabBytes, {}, TermCols, {None}, TRUE)

SpecTab == InitEdit /\ [][NextTab]_vars

(***************************************************************************)
(* SpecKeys: one session fed Ctrl-D, ESC and the keys that prepare their   *)
(* cases, each feed traced, every read and write succeeding.               *)
(***************************************************************************)
\* Ctrl-D, ESC, ' ', left, older
KeyCaseBytes == {CtrlD, Esc, SPACE, CtrlB, CtrlP}

NextKeys ==
    \/ EditStartOk
    \/ EditFeedWith(KeyCaseBytes, {}, TermCols, {None}, TRUE)

SpecKeys == InitEdit /\ [][NextKeys]_vars

(***************************************************************************)
(* SpecIo: one session whose reads and writes may fail, each feed traced.  *)
(***************************************************************************)
\* Ctrl-C, ' ', Tab, older
IoBytes == {CtrlC, SPACE, Tab, CtrlP}

NextIo ==
    \/ EditStartOk
    \/ EditFeedWith(IoBytes, ReadErrKinds, TermCols, WriteErrs, TRUE)

SpecIo == InitEdit /\ [][NextIo]_vars

(***************************************************************************)
(* SpecEsc: one session reading streams that begin with ESC, and the keys  *)
(* that prepare a buffer, every write succeeding.                          *)
(***************************************************************************)
\* ESC followed by bytes that form no recognized sequence: ESC O A, ESC x y,
\* ESC [ 3 A, ESC [ 1 ~, and the cut ESC, ESC [, ESC [ 3, ESC [ A without A
UnrecognizedStreams ==
    {<<Esc, 79, 65>>, <<Esc, 120, 121>>, <<Esc, 91, 51, 65>>,
     <<Esc, 91, 49, 126>>, <<Esc>>, <<Esc, 91>>, <<Esc, 91, 51>>}

\* ESC [ D, and the keys ' ', "older"
EscStreams ==
    UnrecognizedStreams \cup {<<Esc, 91, 68>>, <<SPACE>>, <<CtrlP>>}

NextEsc ==
    \/ EditStartOk
    \/ TypeWith(EscStreams)
    \/ EditFeedInput(TermCols, {None})

SpecEsc == InitEdit /\ [][NextEsc]_vars

(***************************************************************************)
(* SpecUtf8: one session reading streams that begin with a byte >= 0x80,   *)
(* and "left", every write succeeding.                                     *)
(***************************************************************************)
\* U+00E9, U+20AC and U+1F600 in UTF-8
WellFormedStreams ==
    {<<195, 169>>, <<226, 130, 172>>, <<240, 159, 152, 128>>}

\* a stray continuation byte and the byte 0xF8, which match no lead pattern
NoLeadStreams == {<<128>>, <<248>>}

\* a lead byte followed by a byte that is no continuation byte ('a'), or by
\* the end of the input
CutStreams ==
    {<<195, 97>>, <<226, 130, 97>>, <<240, 159, 97>>, <<195>>, <<226, 130>>}

\* sequences of the right length that are not well-formed: the overlong
\* C0 80, the surrogate ED A0 80, F5 80 80 80 past U+10FFFF
MalformedStreams == {<<192, 128>>, <<237, 160, 128>>, <<245, 128, 128, 128>>}

Utf8Streams ==
    WellFormedStreams \cup NoLeadStreams \cup CutStreams \cup MalformedStreams
    \cup {<<CtrlB>>}

NextUtf8 ==
    \/ EditStartOk
    \/ TypeWith(Utf8Streams)
    \/ EditFeedInput(TermCols, {None})

SpecUtf8 == InitEdit /\ [][NextUtf8]_vars

(***************************************************************************)
(* SpecMulti: one session redrawn in multi-line mode, the caller toggling  *)
(* the mode and the terminal changing its width, each feed traced.         *)
(***************************************************************************)
\* linenoise_set_multi_line
SetMultiLine ==
    /\ \E ml \in BOOLEAN : G' = [G EXCEPT !.multi_line = ml]
    /\ UNCHANGED <<tty, st, op, io, life, track, tabs, input, app>>

\* ' ', Ctrl-L, left, older
MultiBytes == {SPACE, CtrlL, CtrlB, CtrlP}

NextMulti ==
    \/ EditStartOk
    \/ SetMultiLine
    \* the terminal 2 or 5 columns wide at each redraw
    \/ EditFeedWith(MultiBytes, {}, {2, 5}, {None}, TRUE)

SpecMulti == InitEdit /\ [][NextMulti]_vars

(***************************************************************************)
(* SpecFn: functions applied on their own, once, to arguments drawn from   *)
(* bounded sets.                                                           *)
(***************************************************************************)
\* "hello world "
HelloWorld == <<104, 101, 108, 108, 111, 32, 119, 111, 114, 108, 100, 32>>

RECURSIVE SeqsUpTo(_, _)
SeqsUpTo(S, n) ==
    IF n = 0 THEN {<<>>}
    ELSE LET shorter == SeqsUpTo(S, n - 1)
         IN  shorter \cup {Append(q, c) : q \in shorter, c \in S}

\* the lines of ' ' and 'a' up to MaxWordLen characters and "hello world ",
\* with the cursor anywhere
WordBuffers ==
    UNION {{[chars |-> q, pos |-> p] : p \in 0..Len(q)} :
              q \in SeqsUpTo({SPACE, 97}, MaxWordLen) \cup {HelloWorld}}

ApplyDeleteWord ==
    /\ app = NoApp
    /\ \E b \in WordBuffers :
          app' = [name |-> "delete_word", arg |-> b,
                  ret |-> LineBuffer_delete_word(b)]
    /\ UNCHANGED <<tty, G, st, op, io, life, track, tabs, input>>

\* the row computation of refresh_multiline for a width of 1..MaxCols, a
\* prompt of up to MaxCols characters, a line of up to MaxWordLen characters
\* and the cursor anywhere
ApplyMultilineRows ==
    /\ app = NoApp
    /\ \E cols \in 1..MaxCols, plen \in 0..MaxCols, len \in 0..MaxWordLen :
          \E pos \in 0..len :
             app' = [name |-> "multiline_rows",
                     arg  |-> [plen |-> plen, len |-> len, pos |-> pos,
                               cols |-> cols],
                     ret  |-> MultilineRows(plen, len, pos, cols)]
    /\ UNCHANGED <<tty, G, st, op, io, life, track, tabs, input>>

\* the window computation of refresh_singleline for a width of 1..MaxCols, a
\* prompt of up to MaxCols characters, a line of up to MaxWordLen characters
\* and the cursor anywhere
ApplySinglelineWindow ==
    /\ app = NoApp
    /\ \E cols \in 1..MaxCols, plen \in 0..MaxCols, len \in 0..MaxWordLen :
          \E pos \in 0..len :
             app' = [name |-> "singleline_window",
                     arg  |-> [plen |-> plen, len |-> len, pos |-> pos,
                               cols |-> cols],
                     ret  |-> SinglelineWindow(plen, len, pos, cols)]
    /\ UNCHANGED <<tty, G, st, op, io, life, track, tabs, input>>

\* the replies to a cursor-position query: none, "R", ESC R, ESC [ R,
\* ESC [ 5 R, ESC [ a ; b R, ESC [ 1 ; R, ESC [ 1 ; 7 without R, and the
\* well-formed ESC [ 1 ; 7 R
CursorReplies ==
    {<<>>, <<82>>, <<Esc, 82>>, <<Esc, 91, 82>>, <<Esc, 91, 53, 82>>,
     <<Esc, 91, 97, 59, 98, 82>>, <<Esc, 91, 49, 59, 82>>,
     <<Esc, 91, 49, 59, 55>>, <<Esc, 91, 49, 59, 55, 82>>}

\* get_columns for a window-size ioctl that reports 0..MaxCols columns
ApplyGetColumns ==
    /\ app = NoApp
    /\ \E ws_col \in 0..MaxCols, reply1 \in CursorReplies,
          reply2 \in CursorReplies, write_ok \in BOOLEAN :
          app' = [name |-> "get_columns",
                  arg  |-> [ws_col |-> ws_col, reply1 |-> reply1,
                            reply2 |-> reply2, write_ok |-> write_ok],
                  ret  |-> get_columns(ws_col, reply1, reply2, write_ok)]
    /\ UNCHANGED <<tty, G, st, op, io, life, track, tabs, input>>

\* What the thread of a feed does with the lock of G around a user callback,
\* in order.  site "completion": handle_completion takes the lock, copies the
\* callback, drops the guard at the end of the block and then calls it;
\* site "hints": refresh_line takes the lock and keeps the guard while
\* refresh_singleline or refresh_multiline calls the callback.  calls: the
\* public function the callback calls ("none": none), each taking the lock
\* for the length of its body.
CallbackLocks(site, calls) ==
    LET body == IF calls = "none" THEN <<>> ELSE <<"lock", "unlock">>
    IN  IF site = "completion"
        THEN <<"lock", "unlock">> \o body
        ELSE <<"lock">> \o body \o <<"unlock">>

\* Mutex::lock and the drop of its guard, one after the other on one thread.
\* "returned": every step done; relock: what lock() does on the thread that
\* holds the lock, "deadlock" or "panic", it never returns.
RECURSIVE RunLocks(_, _, _)
RunLocks(steps, held, relock) ==
    IF steps = <<>> THEN "returned"
    ELSE IF Head(steps) = "lock"
    THEN IF held THEN relock ELSE RunLocks(Tail(steps), TRUE, relock)
    ELSE RunLocks(Tail(steps), FALSE, relock)

\* a feed that calls a user callback, the callback calling a public function
ApplyCallback ==
    /\ app = NoApp
    /\ \E site \in {"completion", "hints"},
          calls \in {"none", "linenoise_history_add", "linenoise_set_multi_line"},
          relock \in {"deadlock", "panic"} :
          app' = [name |-> "callback",
                  arg  |-> [site |-> site, calls |-> calls, relock |-> relock],
                  ret  |-> [outcome |-> RunLocks(CallbackLocks(site, calls),
                                                 FALSE, relock)]]
    /\ UNCHANGED <<tty, G, st, op, io, life, track, tabs, input>>

\* one redraw of each of two buffers of 'a's and 'b's, equal in length, with
\* the same cursor, prompt, width, mode and render state.  hints: no
\* callback, one answering "!" for every line, one answering "!" for the
\* lines that start with 'a'; fresh: nothing drawn before, no completion
\* pending (otherwise two rows drawn, the cursor on the second, a
\* completion pending)
ApplyRedraw ==
    /\ app = NoApp
    /\ \E multi_line \in BOOLEAN, mask_mode \in BOOLEAN, fresh \in BOOLEAN,
          hints \in {"none", "every_line", "lines_in_a"},
          cols \in 1..MaxCols, len \in 0..MaxMaskedLen, prompt \in Prompts :
          \E c1 \in [1..len -> {97, 98}], c2 \in [1..len -> {97, 98}],
             pos \in 0..len :
             LET g == [GlobalState_new EXCEPT
                          !.multi_line = multi_line,
                          !.mask_mode = mask_mode,
                          !.hints_callback = IF hints = "none" THEN None
                                             ELSE Some(hints)]
                 Hint(line) ==
                     IF hints = "every_line"
                        \/ (hints = "lines_in_a" /\ line # <<>> /\ line[1] = 97)
                     THEN Some([text |-> <<33>>, color |-> 35, bold |-> TRUE])
                     ELSE None
                 Ed(c) == [Editor_new(Terminal_new(0, 1, cols), prompt) EXCEPT
                              !.buffer = [chars |-> c, pos |-> pos],
                              !.old_rows = IF fresh THEN 0 ELSE 2,
                              !.cursor_row_offset = IF fresh THEN 0 ELSE 1,
                              !.completion_state =
                                  IF fresh THEN None
                                  ELSE Some([original_line |-> <<>>,
                                             current_index |-> 0])]
                 Output(c) ==
                     IF multi_line
                     THEN MultilineOutput(Ed(c), g, Hint(LineBuffer_as_string(Ed(c).buffer)))
                     ELSE SinglelineOutput(Ed(c), g, Hint(LineBuffer_as_string(Ed(c).buffer)))
             IN  app' = [name |-> "redraw",
                         arg  |-> [multi_line |-> multi_line, mask_mode |-> mask_mode,
                                   hints |-> hints, fresh |-> fresh, cols |-> cols,
                                   prompt |-> prompt, pos |-> pos,
                                   chars |-> <<c1, c2>>],
                         ret  |-> [first |-> Output(c1), second |-> Output(c2)]]
    /\ UNCHANGED <<tty, G, st, op, io, life, track, tabs, input>>

NextFn ==
    \/ ApplyDeleteWord
    \/ ApplyMultilineRows
    \/ ApplySinglelineWindow
    \/ ApplyGetColumns
    \/ ApplyRedraw
    \/ ApplyCallback

SpecFn == Init /\ [][NextFn]_vars

(***************************************************************************)
(* Raw mode over the life of sessions (Spec)                               *)
(***************************************************************************)
\* whether the session object exists and holds a RawModeGuard
GuardHeld == st # None /\ st[1].raw_guard # None

C2_StopRestores ==
    op.name = "edit_stop" =>
        /\ tty = life.snapshot
        /\ st[1].raw_guard = None
        /\ ~G.raw_mode
        /\ G.orig_termios = None

C4_CursorInBuffer ==
    st # None =>
        /\ 0 <= st[1].editor.buffer.pos
        /\ st[1].editor.buffer.pos <= Len(st[1].editor.buffer.chars)

\* a full buffer mixing both characters with the cursor inside it, which the
\* keys reach by typing, moving and transposing
C4_Witness ==
    /\ st # None
    /\ op.name = "edit_feed"
    /\ st[1].editor.buffer.chars = <<SPACE, EAcute, SPACE>>
    /\ st[1].editor.buffer.pos = 1

\* a feed that hands process_key a character to insert: ' ', or U+00E9 as
\* the bytes 0xC3 0xA9
InsertFed ==
    /\ op'.name = "edit_feed"
    /\ \/ io'.key = SPACE
       \/ io'.key = 195 /\ io'.more = <<RdByte(169)>>

\* C5: the buffer never holds more than LINENOISE_MAX_LINE - 1 characters,
\* wherever its content came from (typed characters, a history entry, a
\* completion candidate); an insert attempted at that length leaves content
\* and cursor unchanged, rings the bell, and the feed reports that more
\* input is needed.
C5_CapacityKept ==
    [][/\ st' # None =>
            Len(st'[1].editor.buffer.chars) <= LINENOISE_MAX_LINE - 1
       /\ (/\ st # None
           /\ Len(st[1].editor.buffer.chars) = LINENOISE_MAX_LINE - 1
           /\ InsertFed)
          => /\ st'[1].editor.buffer = st[1].editor.buffer
             /\ io'.bell = 1
             /\ io'.refresh = 0
             /\ op'.res = MoreInput]_vars

\* U+00E9 refused by a full buffer whose content a history entry gave
C5_Witness ==
    /\ st # None
    /\ op.name = "edit_feed"
    /\ io.key = 195
    /\ io.more = <<RdByte(169)>>
    /\ io.bell = 1
    /\ st[1].editor.history_index = 2
    /\ st[1].editor.buffer.chars = Take(LongLine, LINENOISE_MAX_LINE - 1)

(***************************************************************************)
(* The history ring (SpecHistory)                                          *)
(***************************************************************************)
\* C6: in every state the maximum length of the history is at least 1, the
\* history holds at most that many entries, and no two neighbouring entries
\* are equal.
C6_HistoryInvariants ==
    LET e == G.history.entries
    IN  /\ G.history.max_len >= 1
        /\ Len(e) <= G.history.max_len
        /\ \A i \in 1..(Len(e) - 1) : e[i] # e[i + 1]

\* a full history of two entries whose newest has just been refused as a
\* duplicate
C6_Witness ==
    /\ op.name = "history_add"
    /\ op.res = BoolRet(FALSE)
    /\ op.line # <<>>
    /\ Len(G.history.entries) = 2
    /\ G.history.max_len = 2
    /\ G.history.entries[2] = op.line

C9_OlderThenNewerRestores ==
    (track.on /\ track.ups >= 1 /\ track.downs = track.ups) =>
        /\ st[1].editor.buffer.chars = track.s
        /\ st[1].editor.history_index = 0

\* two steps back and two steps forward from a line that was not empty
C9_Witness ==
    /\ st # None
    /\ track.on
    /\ track.ups = 2
    /\ track.downs = 2
    /\ track.s # <<>>
    /\ op.name = "edit_feed"
    /\ op.nav = -1

\* C10: right after a history step that ends at index n (over a history
\* that is not empty): the index is within 0..history length and moved by
\* at most one in the direction of the step; if n > 0 the buffer holds the
\* n-th most recent entry (as much of it as the buffer takes); if n = 0 the
\* buffer holds the saved line.
C10_NavShowsEntry ==
    [][(op'.name = "edit_feed" /\ op'.nav # 0 /\ G.history.entries # <<>>) =>
         LET e  == G.history.entries
             n0 == st[1].editor.history_index
             ed == st'[1].editor
             n  == ed.history_index
         IN  /\ n \in 0..Len(e)
             /\ n \in (IF op'.nav > 0 THEN {n0, n0 + 1} ELSE {n0, n0 - 1})
             /\ n > 0 =>
                  ed.buffer.chars = Take(e[Len(e) - n + 1], LINENOISE_MAX_LINE - 1)
             /\ n = 0 =>
                  ed.saved_line # None /\ ed.buffer.chars = ed.saved_line[1]]_vars

\* C11: an "older" step made while the index equals the history length, and
\* a "newer" step made while the index is 0, change nothing: the index, the
\* buffer content and the cursor stay as they were, also when the displayed
\* line was edited or the cursor moved since the last navigation.
C11_BoundaryStepIsNoOp ==
    [][(/\ op'.name = "edit_feed"
        /\ \/ op'.nav = 1
              /\ st[1].editor.history_index = Len(G.history.entries)
           \/ op'.nav = -1
              /\ st[1].editor.history_index = 0) =>
         /\ st'[1].editor.history_index = st[1].editor.history_index
         /\ st'[1].editor.buffer = st[1].editor.buffer]_vars

\* C12: every step that takes the index from 0 to 1 sets the saved line to
\* the buffer content held just before that step, on the first excursion into
\* the history and on every later one.
C12_SavedLineIsLineLeft ==
    [][(/\ op'.name = "edit_feed"
        /\ st # None
        /\ st[1].editor.history_index = 0
        /\ st'[1].editor.history_index = 1) =>
         st'[1].editor.saved_line = Some(st[1].editor.buffer.chars)]_vars

(***************************************************************************)
(* Completion (SpecTab)                                                    *)
(***************************************************************************)
\* C13: with a completion callback registered, in a run of consecutive Tab
\* keys started from the line s in which every call of the callback returns
\* at least one candidate, the k-th Tab calls the callback with s, not with
\* the displayed candidate; if every call returned n candidates, the buffer
\* then shows candidate (k - 1) mod n (as much of it as the buffer takes).
C13_TabCycles ==
    (st # None /\ io.key = Tab /\ tabs.k >= 1) =>
        /\ io.gen = Some(tabs.s)
        /\ tabs.n >= 1 =>
             st[1].editor.buffer.chars =
                 Take(io.completions[((tabs.k - 1) % tabs.n) + 1],
                      LINENOISE_MAX_LINE - 1)

\* the third Tab of a run over two candidates, started from a line that was
\* not empty: the first candidate is back, and it is not the line s
C13_Witness ==
    /\ st # None
    /\ io.key = Tab
    /\ tabs.k = 3
    /\ tabs.n = 2
    /\ tabs.s # <<>>
    /\ st[1].editor.buffer.chars # tabs.s
    /\ st[1].editor.completion_state # None

\* C14: while a candidate c is displayed, a key other than Tab first discards
\* the completion state and is then applied to the buffer holding c, which is
\* not set back to the line the completion started from: Enter returns c,
\* ' ' is inserted into c, "left" moves the cursor within c, "delete line"
\* empties the buffer, and "older" from the live line saves c.  After any key
\* other than Tab there is no completion state.
C14_KeyAppliesToCandidate ==
    [][(op'.name = "edit_feed" /\ io'.key # -1 /\ io'.key # Tab) =>
         LET ed  == st[1].editor
             ed2 == st'[1].editor
             b   == ed.buffer
             key == io'.key
         IN  /\ ed2.completion_state = None
             /\ ed.completion_state # None =>
                  /\ key = Enter =>
                       op'.res = OkLine(b.chars) /\ ed2.buffer = b
                  /\ key = SPACE =>
                       ed2.buffer.chars =
                           IF Len(b.chars) < LINENOISE_MAX_LINE - 1
                           THEN VecInsert(b.chars, b.pos, SPACE)
                           ELSE b.chars
                  /\ key = CtrlB =>
                       ed2.buffer = [b EXCEPT !.pos = Max(b.pos - 1, 0)]
                  /\ key = CtrlU => ed2.buffer.chars = <<>>
                  /\ (key = CtrlP /\ ed.history_index = 0 /\ ed.saved_line = None) =>
                       ed2.saved_line = Some(b.chars)]_vars

\* ' ' typed while the candidate " é", got from an empty line, was displayed
C14_Witness ==
    /\ st # None
    /\ io.key = SPACE
    /\ io.pending # None
    /\ io.pending[1].original_line = <<>>
    /\ st[1].editor.buffer.chars = <<SPACE, EAcute, SPACE>>
    /\ st[1].editor.completion_state = None

\* C15 (as stated): on any key other than Tab the completion cycler sets the
\* buffer back to the line the completion started from.
C15_OtherKeyReverts ==
    [][(/\ op'.name = "edit_feed"
        /\ io'.key \in {CtrlB, Enter}
        /\ st[1].editor.completion_state # None) =>
         st'[1].editor.buffer.chars =
             st[1].editor.completion_state[1].original_line]_vars

\* C15 (amended): on a key other than Tab the completion cycler drops its
\* state and leaves the displayed candidate in the buffer as the live line;
\* a key that does not edit leaves the content exactly as displayed.
C15_OtherKeyKeepsCandidate ==
    [][(/\ op'.name = "edit_feed"
        /\ io'.key \in {CtrlB, Enter}
        /\ st[1].editor.completion_state # None) =>
         /\ st'[1].editor.buffer.chars = st[1].editor.buffer.chars
         /\ st'[1].editor.completion_state = None]_vars

\* "left" pressed while a candidate that differs from the line the completion
\* started from was displayed
C15_Witness ==
    /\ st # None
    /\ io.key = CtrlB
    /\ io.pending # None
    /\ io.pending[1].original_line # st[1].editor.buffer.chars
    /\ st[1].editor.buffer.chars # <<>>
    /\ st[1].editor.completion_state = None

\* C16: when the completion callback returns no candidates, on the first Tab
\* or on a later one, the bell sounds, the buffer content and the cursor stay
\* as they were, nothing is redrawn, and no completion state is left.
C16_NoCandidatesBell ==
    [][(/\ op'.name = "edit_feed"
        /\ io'.key = Tab
        /\ io'.completions = <<>>
        /\ G.completion_callback # None) =>
         /\ io'.bell = 1
         /\ io'.refresh = 0
         /\ st'[1].editor.buffer = st[1].editor.buffer
         /\ st'[1].editor.completion_state = None]_vars

\* a later Tab, with a candidate displayed, for which the callback returns
\* nothing
C16_Witness ==
    /\ st # None
    /\ io.key = Tab
    /\ io.completions = <<>>
    /\ io.pending # None
    /\ io.pending[1].current_index = 1
    /\ io.bell = 1
    /\ st[1].editor.buffer.chars # <<>>
    /\ st[1].editor.completion_state = None

\* C17: Enter, in any editing state (a completion pending, a history entry
\* displayed, the cursor anywhere), returns exactly the content the buffer
\* holds, leaves the session inactive and leaves the history as it was.
C17_EnterReturnsBuffer ==
    [][(op'.name = "edit_feed" /\ io'.key = Enter) =>
         /\ op'.res = OkLine(st[1].editor.buffer.chars)
         /\ st'[1].editor.buffer = st[1].editor.buffer
         /\ ~st'[1].active
         /\ G'.history = G.history]_vars

\* Enter pressed on a candidate completed from a history entry
C17_Witness ==
    /\ st # None
    /\ io.key = Enter
    /\ io.pending # None
    /\ st[1].editor.history_index = 1
    /\ op.res = OkLine(st[1].editor.buffer.chars)
    /\ st[1].editor.buffer.chars # <<>>
    /\ ~st[1].active

(***************************************************************************)
(* Ctrl-C among failing reads and writes (SpecIo)                          *)
(***************************************************************************)
\* C18: Ctrl-C, in any editing state, makes edit_feed return an error of
\* kind Interrupted, with no line, and leaves the session inactive; no other
\* feed returns that kind: neither "More input needed" (WouldBlock) nor a
\* failing read or write.
C18_CtrlCInterrupts ==
    [][op'.name = "edit_feed" =>
         /\ io'.key = CtrlC =>
              /\ op'.res = [tag |-> "Err", kind |-> "Interrupted", val |-> None]
              /\ ~st'[1].active
         /\ io'.key # CtrlC => op'.res.kind # "Interrupted"]_vars

\* Ctrl-C pressed on a displayed candidate
C18_Witness ==
    /\ st # None
    /\ io.key = CtrlC
    /\ io.pending # None
    /\ op.res.kind = "Interrupted"
    /\ st[1].editor.buffer.chars # <<>>
    /\ ~st[1].active

(***************************************************************************)
(* Ctrl-D and the escape sequences (SpecKeys)                              *)
(***************************************************************************)
\* C19: Ctrl-D returns the end-of-input result, Ok(None), if and only if the
\* buffer is empty; on a buffer that is not empty it removes the character at
\* the cursor (none when the cursor is at the end), keeps the cursor index
\* and, the redraw succeeding, returns "More input needed".
C19_CtrlDDeletesOrEnds ==
    [][(op'.name = "edit_feed" /\ io'.key = CtrlD) =>
         LET b  == st[1].editor.buffer
             b2 == st'[1].editor.buffer
         IN  /\ (op'.res = [tag |-> "Ok", kind |-> "", val |-> None])
                    <=> (b.chars = <<>>)
             /\ b.chars = <<>> => b2 = b
             /\ b.chars # <<>> =>
                  /\ b2.chars = IF b.pos < Len(b.chars)
                                THEN VecRemove(b.chars, b.pos)
                                ELSE b.chars
                  /\ b2.pos = b.pos
                  /\ op'.res = [tag |-> "Err", kind |-> "WouldBlock", val |-> None]]_vars

\* Ctrl-D that removed the second of three characters
C19_Witness ==
    /\ st # None
    /\ io.key = CtrlD
    /\ io.refresh = 1
    /\ Len(st[1].editor.buffer.chars) = 2
    /\ st[1].editor.buffer.pos = 1
    /\ op.res.kind = "WouldBlock"
    /\ st[1].active

\* C20: when the bytes that follow ESC are all there to read, ESC [ A makes
\* an "older" history step and ESC [ B a "newer" one, ESC [ C moves the
\* cursor right, ESC [ D left, ESC [ H and ESC O H to the start, ESC [ F and
\* ESC O F to the end, and ESC [ 3 ~ deletes the character at the cursor;
\* each does nothing else, and the feed that read ESC reads the two (for
\* ESC [ 3 ~ the three) bytes that follow it.
C20_EscapeSequences ==
    [][(op'.name = "edit_feed" /\ io'.key = Esc) =>
         LET ed   == st[1].editor
             ed2  == st'[1].editor
             b    == ed.buffer
             b2   == ed2.buffer
             e    == G.history.entries
             n    == ed.history_index
             n2   == ed2.history_index
             seq  == io'.more
             S(x, y) == <<RdByte(x), RdByte(y)>>
             Moved(pos) ==
                 /\ b2 = [b EXCEPT !.pos = pos]
                 /\ n2 = n
                 /\ ed2.saved_line = ed.saved_line
                 /\ op'.nav = 0
                 /\ io'.reads = 2
             Shown ==
                 IF n2 > 0
                 THEN b2.chars = Take(e[Len(e) - n2 + 1], LINENOISE_MAX_LINE - 1)
                 ELSE b2.chars = ed2.saved_line[1]
         IN  /\ seq = S(91, 65) =>
                  /\ op'.nav = 1
                  /\ n2 = IF n < Len(e) THEN n + 1 ELSE n
                  /\ Shown
                  /\ io'.reads = 2
             /\ seq = S(91, 66) =>
                  /\ op'.nav = -1
                  /\ n2 = IF n > 0 THEN n - 1 ELSE n
                  /\ Shown
                  /\ io'.reads = 2
             /\ seq = S(91, 67) => Moved(Min(b.pos + 1, Len(b.chars)))
             /\ seq = S(91, 68) => Moved(Max(b.pos - 1, 0))
             /\ seq \in {S(91, 72), S(79, 72)} => Moved(0)
             /\ seq \in {S(91, 70), S(79, 70)} => Moved(Len(b.chars))
             /\ seq = <<RdByte(91), RdByte(51), RdByte(126)>> =>
                  /\ b2.chars = IF b.pos < Len(b.chars)
                                THEN VecRemove(b.chars, b.pos)
                                ELSE b.chars
                  /\ b2.pos = b.pos
                  /\ n2 = n
                  /\ ed2.saved_line = ed.saved_line
                  /\ op'.nav = 0
                  /\ io'.reads = 3
             /\ seq \in {S(91, 65), S(91, 66), S(91, 67), S(91, 68), S(91, 72),
                         S(79, 72), S(91, 70), S(79, 70),
                         <<RdByte(91), RdByte(51), RdByte(126)>>} =>
                  /\ op'.res = [tag |-> "Err", kind |-> "WouldBlock", val |-> None]
                  /\ st'[1].active]_vars

\* ESC [ 3 ~ that removed the second of three characters
C20_Witness ==
    /\ st # None
    /\ io.key = Esc
    /\ io.more = <<RdByte(91), RdByte(51), RdByte(126)>>
    /\ io.reads = 3
    /\ io.refresh = 1
    /\ Len(st[1].editor.buffer.chars) = 2
    /\ st[1].editor.buffer.pos = 1

(***************************************************************************)
(* Streams of bytes (SpecEsc, SpecUtf8)                                    *)
(***************************************************************************)
\* C21: once every byte of a stream made of ESC followed by bytes that form
\* no recognized sequence has been processed, the buffer content, the cursor
\* and the history index are what they were when the stream arrived, and no
\* bell has sounded.
C21_UnrecognizedIgnored ==
    (/\ st # None
     /\ input.stream \in UnrecognizedStreams
     /\ input.bytes = <<>>) =>
        /\ st[1].editor.buffer = input.ed0[1].buffer
        /\ st[1].editor.history_index = input.ed0[1].history_index
        /\ input.bell = 0

\* C22: once an invalid or incomplete UTF-8 input has been processed (a byte
\* >= 0x80 that matches no lead pattern; a lead byte followed by a byte that
\* is no continuation byte or by the end of the input; a sequence of the
\* right length that is not well-formed), the bell has sounded and the buffer
\* content and the cursor are what they were.
C22_InvalidUtf8Bell ==
    (/\ st # None
     /\ input.stream \in NoLeadStreams \cup CutStreams \cup MalformedStreams
     /\ input.bytes = <<>>) =>
        /\ st[1].editor.buffer = input.ed0[1].buffer
        /\ input.bell >= 1

\* C24: a byte >= 0x80 that matches a lead pattern makes the feed that read
\* it read 1 (110xxxxx), 2 (1110xxxx) or 3 (11110xxx) further bytes when
\* these are continuation bytes; when they form a well-formed scalar, that
\* one character is inserted at the cursor and the cursor advances by one
\* (nothing is inserted into a full buffer); a byte that fails the
\* continuation check is taken from the input by that feed, which leaves the
\* buffer as it was, so it is never processed as a key of its own.
C24_Utf8Decoding ==
    [][(op'.name = "edit_feed" /\ input.bytes # <<>> /\ io'.key \in 192..247) =>
         LET bytes == input.bytes
             rest  == Tail(bytes)
             n     == IF io'.key < 224 THEN 1 ELSE IF io'.key < 240 THEN 2 ELSE 3
             k     == CHOOSE j \in 0..Min(n, Len(rest)) :
                          /\ \A i \in 1..j : rest[i] \in 128..191
                          /\ j < Min(n, Len(rest)) => rest[j + 1] \notin 128..191
             b     == st[1].editor.buffer
             b2    == st'[1].editor.buffer
             ch    == CASE bytes = <<195, 169>> -> 233
                        [] bytes = <<226, 130, 172>> -> 8364
                        [] bytes = <<240, 159, 152, 128>> -> 128512
                        [] OTHER -> 0
         IN  /\ k = n =>
                  /\ io'.reads = n
                  /\ input'.bytes = SubSeq(bytes, n + 2, Len(bytes))
             /\ ch # 0 =>
                  b2 = IF Len(b.chars) < LINENOISE_MAX_LINE - 1
                       THEN [chars |-> VecInsert(b.chars, b.pos, ch),
                             pos   |-> b.pos + 1]
                       ELSE b
             /\ (k < n /\ k < Len(rest)) =>
                  /\ io'.reads = k + 1
                  /\ input'.bytes = SubSeq(bytes, k + 3, Len(bytes))
                  /\ b2 = b]_vars

\* U+1F600, read as four bytes by one feed, inserted before U+00E9
C24_Witness ==
    /\ st # None
    /\ io.key = 240
    /\ io.reads = 3
    /\ input.stream = <<240, 159, 152, 128>>
    /\ input.bytes = <<>>
    /\ st[1].editor.buffer = [chars |-> <<128512, 233>>, pos |-> 1]

(***************************************************************************)
(* Functions applied on their own (SpecFn)                                 *)
(***************************************************************************)
\* C23: delete_word removes exactly the span before the cursor made of the
\* longest run of spaces that ends at the cursor and, before it, the longest
\* run of characters that are no spaces; every other character, before the
\* span or after the cursor, stays in place, and the cursor ends at the start
\* of the span.  At the end of "hello world " it gives "hello " with the
\* cursor at 6.
C23_DeleteWordSpan ==
    app.name = "delete_word" =>
        LET b  == app.arg
            r  == app.ret
            sp == CHOOSE j \in 0..b.pos :
                      /\ \A i \in (b.pos - j + 1)..b.pos : b.chars[i] = 32
                      /\ j < b.pos => b.chars[b.pos - j] # 32
            e  == b.pos - sp
            wd == CHOOSE j \in 0..e :
                      /\ \A i \in (e - j + 1)..e : b.chars[i] # 32
                      /\ j < e => b.chars[e - j] = 32
         IN /\ r.chars = SubSeq(b.chars, 1, e - wd)
                             \o SubSeq(b.chars, b.pos + 1, Len(b.chars))
            /\ r.pos = e - wd
            /\ (b.chars = HelloWorld /\ b.pos = 12) =>
                   r = [chars |-> <<104, 101, 108, 108, 111, 32>>, pos |-> 6]

\* delete_word applied at the end of "hello world "
C23_Witness ==
    /\ app.name = "delete_word"
    /\ app.arg = [chars |-> HelloWorld, pos |-> 12]
    /\ app.ret = [chars |-> <<104, 101, 108, 108, 111, 32>>, pos |-> 6]

\* C25 (as stated): in multi-line mode, for every width w >= 1, prompt
\* length p, content length L and cursor index, the total row count is
\* ceil((p + L) / w), at least 1, plus one exactly when the cursor is at the
\* end of the content and p + L is a multiple of w.
C25_RowsWithPhantom ==
    app.name = "multiline_rows" =>
        LET a    == app.arg
            n    == a.plen + a.len
            ceil == CHOOSE r \in 0..n : r * a.cols >= n /\ (r - 1) * a.cols < n
        IN  app.ret.total_rows =
                Max(ceil, 1)
                + (IF a.pos = a.len /\ n % a.cols = 0 THEN 1 ELSE 0)

\* C25 (amended): the total row count is ceil((p + L) / w), at least 1, plus
\* one exactly when the cursor is at the end of the content and p + L is a
\* multiple of w other than 0.
C25_RowsWithPhantomPastZero ==
    app.name = "multiline_rows" =>
        LET a    == app.arg
            n    == a.plen + a.len
            ceil == CHOOSE r \in 0..n : r * a.cols >= n /\ (r - 1) * a.cols < n
        IN  app.ret.total_rows =
                Max(ceil, 1)
                + (IF a.pos = a.len /\ n > 0 /\ n % a.cols = 0 THEN 1 ELSE 0)

\* six characters of prompt and content on three columns, the cursor at the
\* end: two rows and the extra one
C25_Witness ==
    /\ app.name = "multiline_rows"
    /\ app.arg = [plen |-> 2, len |-> 4, pos |-> 4, cols |-> 3]
    /\ app.ret.total_rows = 3

\* C27: in single-line mode, for every width, prompt shorter than the width,
\* content and cursor index, the rendered part of the content has at most
\* width - prompt length characters, the cursor index lies inside the
\* rendered window (window start <= cursor <= window start + window length)
\* and the emitted cursor column, prompt length + (cursor - window start),
\* is a column of the screen: strictly less than the width, counting from 0.
C27_CursorOnScreen ==
    (app.name = "singleline_window" /\ app.arg.plen < app.arg.cols) =>
        LET a == app.arg
            r == app.ret
        IN  /\ r.shown <= a.cols - a.plen
            /\ r.start <= a.pos
            /\ a.pos <= r.start + r.shown
            /\ r.cursor_screen_pos = a.plen + (a.pos - r.start)
            /\ r.cursor_screen_pos < a.cols

\* C28: when the window-size ioctl gives no width, get_columns returns
\* normally whatever the reply to the cursor-position query, and returns 80
\* when that reply is missing, is shorter than three bytes ending in R, has
\* no ';' or has fields that are no numbers.
C28_ColumnsFallBackTo80 ==
    (app.name = "get_columns" /\ app.arg.ws_col = 0) =>
        /\ app.ret.tag = "ret"
        /\ app.arg.reply1 \in {<<>>, <<82>>, <<Esc, 82>>, <<Esc, 91, 82>>,
                               <<Esc, 91, 53, 82>>, <<Esc, 91, 97, 59, 98, 82>>,
                               <<Esc, 91, 49, 59, 82>>} =>
              app.ret.cols = 80


(***************************************************************************)
(* C26: in a session redrawn in multi-line mode, a redraw moves the cursor *)
(* up by the cursor row the redraw before it recorded and clears the       *)
(* larger of the rows recorded before and the rows it computes, then       *)
(* records its rows and its cursor row, the cursor row below the rows; a   *)
(* feed that does not redraw leaves both recorded values alone, and only   *)
(* Ctrl-L has its redraw start from 0 and 0.                               *)
(***************************************************************************)
C26_RedrawBookkeeping ==
    [][(op'.name = "edit_feed" /\ G' = G /\ G.multi_line) =>
         LET e    == st[1].editor
             e2   == st'[1].editor
             d    == io'.draws
             rows == MultilineRows(Len(e2.prompt), Len(e2.buffer.chars),
                                   e2.buffer.pos, e2.terminal.cols)
             was  == IF io'.key = CtrlL
                     THEN [old_rows |-> 0, cursor_row_offset |-> 0]
                     ELSE [old_rows |-> e.old_rows,
                           cursor_row_offset |-> e.cursor_row_offset]
         IN  /\ Len(d) = io'.refresh
             /\ Len(d) = 0 =>
                   /\ e2.old_rows = e.old_rows
                   /\ e2.cursor_row_offset = e.cursor_row_offset
             /\ Len(d) >= 1 =>
                   /\ d[1] = Some([up      |-> was.cursor_row_offset,
                                   cleared |-> Max(was.old_rows, rows.total_rows)])
                   /\ e2.old_rows = rows.total_rows
                   /\ e2.cursor_row_offset = rows.cursor_row
                   /\ e2.cursor_row_offset < e2.old_rows
    ]_vars

\* a redraw on the second of two rows that had to clear three
C26_Witness ==
    /\ op.name = "edit_feed"
    /\ G.multi_line
    /\ st # None
    /\ io.draws = <<Some([up |-> 1, cleared |-> 3])>>
    /\ st[1].editor.old_rows = 2


(***************************************************************************)
(* C30: an edit_start whose input descriptor is no terminal fails without  *)
(* raw mode enabled, without a byte taken from the input descriptor and    *)
(* without an escape sequence written to the output descriptor.            *)
(***************************************************************************)
C30_NotATerminalNoEffect ==
    (op.name = "edit_start" /\ ~op.term.is_tty) =>
        /\ op.res = Err("Other")
        /\ st = None
        /\ ~G.raw_mode
        /\ op.term.read = 0
        /\ op.term.wrote = 0


(***************************************************************************)
(* C29: after an edit_feed that returned a line, end-of-input or the       *)
(* interrupted error, the next edit_feed of the session returns            *)
(* end-of-input and leaves the buffer as it was.                           *)
(***************************************************************************)
C29_TerminalOutcomeIsFinal ==
    [][(/\ st # None /\ st' # None
        /\ op.name = "edit_feed"
        /\ op.res.tag = "Ok" \/ op.res = InterruptedErr
        /\ op'.name = "edit_feed") =>
           /\ op'.res = OkNone
           /\ ~st'[1].active
           /\ st'[1].editor.buffer = st[1].editor.buffer
    ]_vars


(***************************************************************************)
(* C31: with mask mode enabled, the redraws of two buffers of equal length *)
(* with the same cursor, prompt, width and render state emit the same      *)
(* output, whatever the characters and whether a hints callback is         *)
(* registered.                                                             *)
(***************************************************************************)
C31_MaskedOutputSame ==
    (app.name = "redraw" /\ app.arg.mask_mode) => app.ret.first = app.ret.second


(***************************************************************************)
(* C32: a user callback, completion or hints, that calls a public function *)
(* taking the lock of the process-wide state returns, and the feed that    *)
(* called it completes.                                                    *)
(***************************************************************************)
C32_CallbackReturns ==
    app.name = "callback" => app.ret.outcome = "returned"


(***************************************************************************)
(* C33: the navigation index of a session never exceeds the number of      *)
(* history entries, whatever the caller adds to the shared history and     *)
(* whatever maximum length it sets between the feeds.                      *)
(***************************************************************************)
C33_IndexWithinHistory ==
    st # None => st[1].editor.history_index <= Len(G.history.entries)

=============================================================================
